(* Runs served through the helpers of the server, one after the other: a   *)
(* run selects a profile with select_profile and applies the rules it got  *)
(* to one document with apply_rules.  profiles is built once, when the     *)
(* module is imported; lastCall.minimal is the state of the instances in   *)
(* profiles['minimal'] while no run works on them.                         *)
(***************************************************************************)

---- MODULE Spec2Model ----
(***************************************************************************)
(* A model of the PONK-rules engine: the plugin registry                   *)
(* (get_final_children), the discriminated wrappers built on it, the       *)
(* defaulting of an absent selection, the clause extractor and the rule    *)
(* instance with its annotation channel and measurement aggregator.        *)
(***************************************************************************)
EXTENDS Integers, Sequences, FiniteSets, TLC

(***************************************************************************)
(* Bounds of the model.                                                    *)
(***************************************************************************)
\* number of classes that can be defined below the base class
MaxClasses == 4
\* longest explicit selection list handed to unwrap_rule_list
MaxSel == 1
\* number of tokens of a sentence tree
MaxNodes == 4
\* phrases appended to the head phrase of a document the rules are applied to
MaxPhrases == 2
\* rule instances applied to one document
MaxRules == 1
\* distinct values the random application id can take
NumIds == 2
\* tokens of a document a metric is applied to
MaxWords == 4
\* largest window_size of the moving-average type-token ratio
MaxWindow == 3
\* files the batch driver finds in its directory
MaxFiles == 2
\* how many calls of the annotation methods are made on one document
MaxCalls == 2
\* runs served one after the other
MaxRequests == 2

(***************************************************************************)
(* Generic helpers.                                                        *)
(***************************************************************************)
Range(s) == {s[i] : i \in 1..Len(s)}

\* the sequences over S of length at most n
SeqsUpTo(S, n) == UNION {[1..k -> S] : k \in 0..n}

\* list.remove(x): drop the first occurrence of x
RemoveFirst(s, x) ==
    LET k == CHOOSE i \in 1..Len(s) : s[i] = x /\ \A j \in 1..(i - 1) : s[j] # x
    IN  [i \in 1..(Len(s) - 1) |-> IF i < k THEN s[i] ELSE s[i + 1]]

(***************************************************************************)
(* State.                                                                  *)
(***************************************************************************)
VARIABLES
    \* cls.__subclasses__(): for every defined class, its direct subclasses
    \* in definition order
    subclasses,
    \* the members of the Union of RuleAPIWrapper / MetricsWrapper, evaluated
    \* when the wrapper's class statement runs; <<>> before that
    wrapperUnion,
    \* the most recent call of a registry or selector function and what it
    \* returned: [op, ..., out, at], at being the hierarchy at call time
    lastCall,
    \* the sentence tree at hand: [parent, kind], token n having the
    \* governor parent[n] (0 is the technical root) and the attributes of
    \* Token(kind[n]); n is the token's ord
    tree,
    \* node.misc of every token of the tree: annotation key -> value
    misc,
    \* the rule instances applied to the document, in list order
    rules,
    \* history: one entry per logical finding a rule has annotated, with the
    \* application id it was written under
    findings,
    \* where the run is: the phase, the rule at work and the node it visits next
    pc

regVars == <<subclasses, wrapperUnion, lastCall>>

ruleVars == <<misc, rules, findings, pc>>

vars == <<subclasses, wrapperUnion, lastCall, tree, misc, rules, findings, pc>>

\* no document is being processed
NoRun ==
    /\ misc = <<>>
    /\ rules = <<>>
    /\ findings = [log |-> <<>>, generated |-> <<>>, calls |-> <<>>]
    /\ pc = [phase |-> "off", rule |-> 0, node |-> 0]

(***************************************************************************)
(* PluginRegistry.                                                         *)
(***************************************************************************)
\* the class every hierarchy starts from (Rule, Metric, StringBuildable)
Base == 0

\* loop of Documentable.get_final_children: `children` grows while it is
\* iterated, i is the position of the for loop
RECURSIVE DocLoop(_, _, _, _)
DocLoop(h, children, final_children, i) ==
    IF i > Len(children) THEN final_children
    ELSE LET child == children[i] IN
         IF h[child] # <<>>
         THEN DocLoop(h, children \o h[child], final_children, i + 1)
         ELSE DocLoop(h, children, Append(final_children, child), i + 1)

\* a plausible slip: only the direct subclasses are looked at
DirectLeavesOnly(h, cls) == SelectSeq(h[cls], LAMBDA c : h[c] = <<>>)

\* a plausible slip: every visited class is kept
RECURSIVE KeepAllLoop(_, _, _, _)
KeepAllLoop(h, children, final_children, i) ==
    IF i > Len(children) THEN final_children
    ELSE LET child == children[i] IN
         KeepAllLoop(h, children \o h[child], Append(final_children, child), i + 1)

KeepAll(h, cls) == KeepAllLoop(h, h[cls], <<>>, 1)

\* Documentable.get_final_children(cls) on the hierarchy h
get_final_children(h, cls) == DocLoop(h, h[cls], <<>>, 1)

\* loop of StringBuildable.get_final_children: the list is changed while
\* the for loop walks it by position
RECURSIVE SBLoop(_, _, _)
SBLoop(h, children, i) ==
    IF i > Len(children) THEN children
    ELSE LET child == children[i] IN
         IF h[child] # <<>>
         THEN SBLoop(h, RemoveFirst(children, child) \o h[child], i + 1)
         ELSE SBLoop(h, children, i + 1)

\* StringBuildable.get_final_children(cls) on the hierarchy h
sb_get_final_children(h, cls) == SBLoop(h, h[cls], 1)

\* the class statement `class C(p)`: C is appended to p.__subclasses__()
DefineClass(p) ==
    LET c == Cardinality(DOMAIN subclasses) IN
    /\ c <= MaxClasses
    /\ p \in DOMAIN subclasses
    /\ subclasses' = [k \in DOMAIN subclasses \cup {c} |->
                        IF k = c THEN <<>>
                        ELSE IF k = p THEN Append(subclasses[p], c)
                        ELSE subclasses[k]]
    /\ UNCHANGED <<wrapperUnion, lastCall, tree>>
    /\ UNCHANGED ruleVars

CallGetFinalChildren(cls) ==
    /\ cls \in DOMAIN subclasses
    /\ lastCall' = [op |-> "get_final_children", cls |-> cls,
                    out |-> get_final_children(subclasses, cls), at |-> subclasses]
    /\ UNCHANGED <<subclasses, wrapperUnion, tree>>
    /\ UNCHANGED ruleVars

CallSBGetFinalChildren(cls) ==
    /\ cls \in DOMAIN subclasses
    /\ lastCall' = [op |-> "sb_get_final_children", cls |-> cls,
                    out |-> sb_get_final_children(subclasses, cls), at |-> subclasses]
    /\ UNCHANGED <<subclasses, wrapperUnion, tree>>
    /\ UNCHANGED ruleVars

(***************************************************************************)
(* DiscriminatedSelector.                                                  *)
(***************************************************************************)
\* parameter sets an instance can be built with
ParamChoices == {"default", "custom"}

\* cls(): an instance of cls with the given parameters
Instance(cls, params) == [cls |-> cls, params |-> params]

\* a rejected request
ValidationError == [error |-> "ValidationError"]

\* the class statement of RuleAPIWrapper / MetricsWrapper: the Union is
\* Base.get_final_children() as it is when the statement runs (a Union of no
\* types cannot be built)
BuildWrapper ==
    /\ wrapperUnion = <<>>
    /\ get_final_children(subclasses, Base) # <<>>
    /\ wrapperUnion' = get_final_children(subclasses, Base)
    /\ UNCHANGED <<subclasses, lastCall, tree>>
    /\ UNCHANGED ruleVars

\* validation of {discriminator: tag, ...params} against the wrapper: the
\* member of the Union whose id is the tag, or a validation error
wrapper_validate(union, tag, params) ==
    IF tag \in Range(union) THEN Instance(tag, params) ELSE ValidationError

Decode(tag, params) ==
    /\ wrapperUnion # <<>>
    /\ lastCall' = [op |-> "decode", tag |-> tag,
                    out |-> wrapper_validate(wrapperUnion, tag, params),
                    at |-> subclasses]
    /\ UNCHANGED <<subclasses, wrapperUnion, tree>>
    /\ UNCHANGED ruleVars

\* [rule() for rule in Rule.get_final_children()]
DefaultInstances(h) ==
    LET leaves == get_final_children(h, Base)
    IN  [i \in 1..Len(leaves) |-> Instance(leaves[i], "default")]

\* an optional list: Python's None, or a list
NoSelection == [none |-> TRUE]
Selection(items) == [none |-> FALSE, items |-> items]

\* a plausible slip: `if not rule_wrapper_list` takes the empty list for None
UnwrapFalsy(h, sel) ==
    IF sel.none \/ sel.items = <<>> THEN DefaultInstances(h)
    ELSE [i \in 1..Len(sel.items) |-> sel.items[i].rule]

\* server/api_helpers.py unwrap_rule_list
unwrap_rule_list(h, sel) ==
    IF sel.none THEN DefaultInstances(h)
    ELSE [i \in 1..Len(sel.items) |-> sel.items[i].rule]

\* server/api_helpers.py unwrap_metric_list
unwrap_metric_list(h, sel) ==
    IF sel.none THEN DefaultInstances(h)
    ELSE [i \in 1..Len(sel.items) |-> sel.items[i].metric]

\* server/__init__.py unwrap_rule_list: None is passed through
server_unwrap_rule_list(sel) ==
    IF sel.none THEN sel
    ELSE Selection([i \in 1..Len(sel.items) |-> sel.items[i].rule])

\* server/__init__.py apply_rules: the list of instances it runs
server_apply_rules_list(h, rule_list) ==
    IF rule_list.none THEN DefaultInstances(h) ELSE rule_list.items

\* the wrapper objects a request can carry: validated members of the Union
Wrappers == {[rule |-> Instance(c, p), metric |-> Instance(c, p)] :
                c \in Range(wrapperUnion), p \in ParamChoices}

Unwrap(sel) ==
    /\ wrapperUnion # <<>>
    /\ lastCall' = [op |-> "unwrap", arg |-> sel,
                    out |-> unwrap_rule_list(subclasses, sel),
                    metrics |-> unwrap_metric_list(subclasses, sel),
                    applied |-> server_apply_rules_list(subclasses,
                                    server_unwrap_rule_list(sel)),
                    at |-> subclasses]
    /\ UNCHANGED <<subclasses, wrapperUnion, tree>>
    /\ UNCHANGED ruleVars

(***************************************************************************)
(* Properties of the registry and the selector.                            *)
(***************************************************************************)
\* the class c was derived from in the hierarchy h
ParentOf(h, c) == CHOOSE p \in DOMAIN h : c \in Range(h[p])

RECURSIVE Ancestors(_, _)
Ancestors(h, c) ==
    IF c = Base THEN {} ELSE {ParentOf(h, c)} \cup Ancestors(h, ParentOf(h, c))

\* the classes below b that nothing is derived from
TerminalBelow(h, b) == {c \in DOMAIN h : b \in Ancestors(h, c) /\ h[c] = <<>>}

\* C4: Documentable.get_final_children(base) contains no class that itself
\* has subclasses, whatever the depth of the hierarchy below base.
C4_NoNonLeaf ==
    lastCall.op = "get_final_children" =>
        \A i \in 1..Len(lastCall.out) : lastCall.at[lastCall.out[i]] = <<>>

\* a call on a hierarchy in which a returned class lies three levels below
\* the class asked, next to classes that have subclasses
C4_Witness ==
    /\ lastCall.op = "get_final_children"
    /\ \E c \in Range(lastCall.out) :
          /\ Cardinality(Ancestors(lastCall.at, c) \ Ancestors(lastCall.at, lastCall.cls)) >= 3
          /\ lastCall.cls \in Ancestors(lastCall.at, c)

\* C5: StringBuildable.get_final_children(base) contains no class that itself
\* has subclasses.
C5_NoNonLeaf ==
    lastCall.op = "sb_get_final_children" =>
        \A i \in 1..Len(lastCall.out) : lastCall.at[lastCall.out[i]] = <<>>

\* C6: the classes Documentable.get_final_children(base) returns are exactly
\* the classes reachable from base through subclass edges that have no
\* subclasses, at call time; with no subclasses the result is the empty list.
C6_ExactlyTheLeaves ==
    lastCall.op = "get_final_children" =>
        /\ Range(lastCall.out) = TerminalBelow(lastCall.at, lastCall.cls)
        /\ (lastCall.at[lastCall.cls] = <<>> => lastCall.out = <<>>)

\* a call that returns leaves of different depths
C6_Witness ==
    /\ lastCall.op = "get_final_children"
    /\ \E c, d \in Range(lastCall.out) :
          /\ ParentOf(lastCall.at, c) = lastCall.cls
          /\ ParentOf(lastCall.at, d) # lastCall.cls

\* C7: without a selection (None) unwrap_rule_list / unwrap_metric_list give
\* exactly one default-parameter instance of every class in
\* get_final_children(); for an empty list they give an empty list; only None
\* triggers the default.
OneDefaultOfEveryLeaf(h, insts) ==
    /\ \A c \in TerminalBelow(h, Base) :
          Cardinality({i \in 1..Len(insts) : insts[i].cls = c}) = 1
    /\ \A i \in 1..Len(insts) :
          insts[i].cls \in TerminalBelow(h, Base) /\ insts[i].params = "default"

C7_DefaultOnlyForNone ==
    lastCall.op = "unwrap" =>
        IF lastCall.arg.none
        THEN /\ OneDefaultOfEveryLeaf(lastCall.at, lastCall.out)
             /\ OneDefaultOfEveryLeaf(lastCall.at, lastCall.metrics)
             /\ OneDefaultOfEveryLeaf(lastCall.at, lastCall.applied)
        ELSE /\ Len(lastCall.out) = Len(lastCall.arg.items)
             /\ Len(lastCall.metrics) = Len(lastCall.arg.items)
             /\ Len(lastCall.applied) = Len(lastCall.arg.items)

\* no selection was supplied while several leaves of different depth exist
C7_Witness ==
    /\ lastCall.op = "unwrap"
    /\ lastCall.arg.none
    /\ \E i, j \in 1..Len(lastCall.out) :
          /\ ParentOf(lastCall.at, lastCall.out[i].cls) = Base
          /\ ParentOf(lastCall.at, lastCall.out[j].cls) # Base

\* C8: a configuration whose discriminator is the id of a class in the leaf
\* set at decode time decodes to an instance of that class; a discriminator
\* that matches no leaf is rejected with a validation error.
C8_DecodesEveryLeaf ==
    lastCall.op = "decode" =>
        IF lastCall.tag \in Range(get_final_children(lastCall.at, Base))
        THEN "cls" \in DOMAIN lastCall.out /\ lastCall.out.cls = lastCall.tag
        ELSE lastCall.out = ValidationError

InitRegistry ==
    /\ subclasses = [c \in {Base} |-> <<>>]
    /\ wrapperUnion = <<>>
    /\ lastCall = [op |-> "none"]
    /\ tree = [parent |-> <<>>, kind |-> <<>>]
    /\ NoRun

NextRegistry ==
    \/ \E p \in 0..MaxClasses : DefineClass(p)
    \/ \E cls \in 0..MaxClasses : CallGetFinalChildren(cls)
    \/ \E cls \in 0..MaxClasses : CallSBGetFinalChildren(cls)
    \/ BuildWrapper
    \/ \E tag \in 0..(MaxClasses + 1), params \in ParamChoices : Decode(tag, params)
    \/ Unwrap(NoSelection)
    \/ \E items \in SeqsUpTo(Wrappers, MaxSel) : Unwrap(Selection(items))

SpecRegistry == InitRegistry /\ [][NextRegistry]_vars

(***************************************************************************)
(* The sentence tree (udapi) and the ClauseExtractor.                      *)
(***************************************************************************)
\* the technical root of a udapi tree: ord 0, no parent
Root == 0

\* Python's None where a node is expected
NoNode == -1

\* what a call gives: a value, or the exception it raises
Returned(v) == [raised |-> "", value |-> v]
Raised(e) == [raised |-> e]

\* the attributes of the tokens a tree is drawn from (CoNLL-U columns);
\* xpos is the tag as a sequence of characters, deprel the relation as its
\* colon-separated segments
Token(k) ==
    CASE k = "noun"  -> [form |-> "test", lemma |-> "test", upos |-> "NOUN",
                         xpos |-> <<"N", "N", "I", "S">>,
                         feats |-> [Case |-> "Nom"], deprel |-> <<"nsubj">>]
      [] k = "verb"  -> [form |-> "je", lemma |-> "byt", upos |-> "VERB",
                         xpos |-> <<"V", "B", "-", "S">>,
                         feats |-> [VerbForm |-> "Fin"], deprel |-> <<"conj">>]
      [] k = "part"  -> [form |-> "byl", lemma |-> "byt", upos |-> "AUX",
                         xpos |-> <<"V", "p", "Y", "S">>,
                         feats |-> [VerbForm |-> "Part"], deprel |-> <<"aux", "pass">>]
      [] k = "se"    -> [form |-> "se", lemma |-> "se", upos |-> "PRON",
                         xpos |-> <<"P", "7", "-", "X">>,
                         feats |-> [Case |-> "Acc"], deprel |-> <<"expl", "pass">>]
      [] k = "punct" -> [form |-> ".", lemma |-> ".", upos |-> "PUNCT",
                         xpos |-> <<"Z", ":", "-", "-">>,
                         feats |-> [Polarity |-> "Pos"] , deprel |-> <<"punct">>]
      [] k = "v"     -> [form |-> "V", lemma |-> "v", upos |-> "ADP",
                         xpos |-> <<"R", "R", "-", "-">>,
                         feats |-> [Case |-> "Loc"], deprel |-> <<"case">>]
      [] k = "v_low" -> [form |-> "v", lemma |-> "v", upos |-> "ADP",
                         xpos |-> <<"R", "R", "-", "-">>,
                         feats |-> [Case |-> "Loc"], deprel |-> <<"case">>]
      [] k = "lese"  -> [form |-> "lese", lemma |-> "les", upos |-> "NOUN",
                         xpos |-> <<"N", "N", "I", "S">>,
                         feats |-> [Case |-> "Loc"], deprel |-> <<"obl">>]
      [] k = "louce" -> [form |-> "louce", lemma |-> "louka", upos |-> "NOUN",
                         xpos |-> <<"N", "N", "F", "S">>,
                         feats |-> [Case |-> "Loc"], deprel |-> <<"conj">>]
      [] k = "a"     -> [form |-> "a", lemma |-> "a", upos |-> "CCONJ",
                         xpos |-> <<"J", "^", "-", "-">>,
                         feats |-> [x \in {} |-> ""], deprel |-> <<"cc">>]
      [] k = "na"    -> [form |-> "na", lemma |-> "na", upos |-> "ADP",
                         xpos |-> <<"R", "R", "-", "-">>,
                         feats |-> [Case |-> "Acc"], deprel |-> <<"case">>]
      [] k = "louku" -> [form |-> "louku", lemma |-> "louka", upos |-> "NOUN",
                         xpos |-> <<"N", "N", "F", "S">>,
                         feats |-> [Case |-> "Acc"], deprel |-> <<"conj">>]
      [] k = "jasne" -> [form |-> "jasne", lemma |-> "jasne", upos |-> "ADV",
                         xpos |-> <<"D", "g", "-", "-">>,
                         feats |-> [Degree |-> "Pos"], deprel |-> <<"advmod">>]
      [] k = "velmi" -> [form |-> "velmi", lemma |-> "velmi", upos |-> "ADV",
                         xpos |-> <<"D", "b", "-", "-">>,
                         feats |-> [x \in {} |-> ""], deprel |-> <<"advmod">>]
      [] k = "adj"   -> [form |-> "novy", lemma |-> "novy", upos |-> "ADJ",
                         xpos |-> <<"A", "A", "I", "S">>,
                         feats |-> [Case |-> "Nom"], deprel |-> <<"amod">>]
      [] k = "do"    -> [form |-> "do", lemma |-> "do", upos |-> "ADP",
                         xpos |-> <<"R", "R", "-", "-">>,
                         feats |-> [Case |-> "Gen"], deprel |-> <<"case">>]
      [] k = "jisty" -> [form |-> "jiste", lemma |-> "jisty", upos |-> "ADJ",
                         xpos |-> <<"A", "A", "F", "S">>,
                         feats |-> [Case |-> "Gen"], deprel |-> <<"amod">>]
      [] k = "mira"  -> [form |-> "miry", lemma |-> "mira", upos |-> "NOUN",
                         xpos |-> <<"N", "N", "F", "S">>,
                         feats |-> [Case |-> "Gen"], deprel |-> <<"obl">>]
      [] k = "snad"  -> [form |-> "snad", lemma |-> "snad", upos |-> "PART",
                         xpos |-> <<"T", "T", "-", "-">>,
                         feats |-> [x \in {} |-> ""], deprel |-> <<"advmod">>]
      [] k = "Snad"  -> [form |-> "Snad", lemma |-> "Snad", upos |-> "PART",
                         xpos |-> <<"T", "T", "-", "-">>,
                         feats |-> [x \in {} |-> ""], deprel |-> <<"advmod">>]
      [] k = "pred"  -> [form |-> "je", lemma |-> "byt", upos |-> "VERB",
                         xpos |-> <<"V", "B", "-", "S">>,
                         feats |-> [VerbForm |-> "Fin"], deprel |-> <<"root">>]
      [] k = "<ROOT>" -> [form |-> "<ROOT>", lemma |-> "<ROOT>", upos |-> "<ROOT>",
                         xpos |-> <<"<", "R", "O", "O", "T", ">">>,
                         feats |-> [x \in {} |-> ""], deprel |-> <<"<ROOT>">>]

\* the token kinds the trees of the clause extractor are built from
Kinds == {"noun", "verb", "part", "se", "punct"}

\* the tokens of the tree, by ord
TreeNodes(t) == 1..Len(t.parent)

NodeAttrs(t, n) == IF n = Root THEN Token("<ROOT>") ELSE Token(t.kind[n])

\* node.children
Children(t, n) == {c \in TreeNodes(t) : t.parent[c] = n}

\* node.parent; the technical root has none
Parent(t, n) == IF n = Root THEN NoNode ELSE t.parent[n]

\* node.udeprel: the relation without its subtype
Udeprel(t, n) == NodeAttrs(t, n).deprel[1]

\* xpos[0:2]
XposPrefix(t, n) ==
    LET x == NodeAttrs(t, n).xpos IN SubSeq(x, 1, IF Len(x) < 2 THEN Len(x) ELSE 2)

\* node.descendants(add_self=True) as a set
RECURSIVE DescendantsSet(_, _)
DescendantsSet(t, n) ==
    {n} \cup UNION {DescendantsSet(t, c) : c \in Children(t, n)}

\* the nodes of S in word order
RECURSIVE SortedFrom(_, _, _)
SortedFrom(S, n, max) ==
    IF n > max THEN <<>>
    ELSE (IF n \in S THEN <<n>> ELSE <<>>) \o SortedFrom(S, n + 1, max)

\* node.descendants(add_self=True): the subtree in word order
Descendants(t, n) == SortedFrom(DescendantsSet(t, n), 0, Len(t.parent))

is_aux(t, n, grammatical_only) ==
    IF grammatical_only
    THEN Udeprel(t, n) \in {"aux", "cop"} \/ NodeAttrs(t, n).deprel = <<"expl", "pass">>
    ELSE Udeprel(t, n) \in {"aux", "expl", "cop"}

is_finite_verb(t, n) ==
    \/ "VerbForm" \in DOMAIN NodeAttrs(t, n).feats /\ NodeAttrs(t, n).feats["VerbForm"] = "Fin"
    \/ XposPrefix(t, n) = <<"V", "p">>

is_clause_root(t, n) ==
    is_finite_verb(t, n) \/ \E nd \in Children(t, n) : is_aux(t, nd, TRUE)

\* get_clause_root: the walk over parent edges; past the technical root the
\* parent is None and is_clause_root(None) raises
RECURSIVE get_clause_root(_, _)
get_clause_root(t, clause_root) ==
    IF clause_root = NoNode THEN NoNode
    ELSE IF is_clause_root(t, clause_root) THEN clause_root
    ELSE get_clause_root(t, Parent(t, clause_root))

\* a plausible slip: only the nested roots themselves are dropped
RECURSIVE ToRemoveRootsOnly(_, _, _, _)
ToRemoveRootsOnly(t, clause, clause_root, i) ==
    IF i > Len(clause) THEN <<>>
    ELSE LET nd == clause[i] IN
         (IF nd # clause_root /\ is_clause_root(t, nd) THEN <<nd>> ELSE <<>>)
            \o ToRemoveRootsOnly(t, clause, clause_root, i + 1)

\* the loop of get_clause that collects to_remove
RECURSIVE ToRemove(_, _, _, _)
ToRemove(t, clause, clause_root, i) ==
    IF i > Len(clause) THEN <<>>
    ELSE LET nd == clause[i] IN
         (IF nd # clause_root /\ is_clause_root(t, nd) THEN Descendants(t, nd) ELSE <<>>)
            \o ToRemove(t, clause, clause_root, i + 1)

\* the body of get_clause once clause_root is known
ClauseOf(t, clause_root, without_subordinates, without_punctuation) ==
    LET clause0 == Descendants(t, clause_root)
        to_remove == IF without_subordinates THEN ToRemove(t, clause0, clause_root, 1) ELSE <<>>
        clause1 == SelectSeq(clause0, LAMBDA nd : nd \notin Range(to_remove))
    IN  IF without_punctuation
        THEN SelectSeq(clause1, LAMBDA nd : NodeAttrs(t, nd).upos # "PUNCT")
        ELSE clause1

get_clause(t, node, without_subordinates, without_punctuation, node_is_root) ==
    LET clause_root == IF node_is_root THEN node ELSE get_clause_root(t, node)
    IN  IF clause_root = NoNode THEN Raised("AttributeError")
        ELSE Returned(ClauseOf(t, clause_root, without_subordinates, without_punctuation))

(***************************************************************************)
(* Properties of the ClauseExtractor.                                      *)
(***************************************************************************)
\* n, its governor, the governor's governor, ... up to the technical root
RECURSIVE UpChain(_, _)
UpChain(t, n) == IF n = Root THEN {Root} ELSE {n} \cup UpChain(t, t.parent[n])

\* the clause roots strictly below node that n lies under (n itself included)
NestedRootsOver(t, node, n) ==
    {r \in UpChain(t, n) : r # node /\ node \in UpChain(t, r) /\ is_clause_root(t, r)}

\* the subtree of node, minus the nested clauses, minus the punctuation
ExpectedClause(t, node, without_subordinates, without_punctuation) ==
    {n \in TreeNodes(t) :
        /\ node \in UpChain(t, n)
        /\ ~(without_subordinates /\ NestedRootsOver(t, node, n) # {})
        /\ ~(without_punctuation /\ NodeAttrs(t, n).upos = "PUNCT")}

\* C10: get_clause(node, without_subordinates, without_punctuation,
\* node_is_root=True) returns exactly the subtree of node minus, when
\* without_subordinates, every nested clause root with all its descendants,
\* and minus, when without_punctuation, the PUNCT nodes; nothing else is
\* removed.
C10_ExactClause ==
    (lastCall.op = "get_clause" /\ lastCall.node_is_root) =>
        LET expected == ExpectedClause(tree, lastCall.node, lastCall.without_subordinates,
                                       lastCall.without_punctuation)
        IN  /\ lastCall.out.raised = ""
            /\ Range(lastCall.out.value) = expected
            /\ Len(lastCall.out.value) = Cardinality(expected)

\* a node with two children, one of them a clause root with a descendant of
\* its own: without subordinates the clause is the node and the other child
C10_Witness ==
    /\ lastCall.op = "get_clause"
    /\ lastCall.node_is_root
    /\ lastCall.without_subordinates
    /\ \E c, d \in Children(tree, lastCall.node) :
          /\ Children(tree, lastCall.node) = {c, d}
          /\ c # d
          /\ is_clause_root(tree, c)
          /\ Children(tree, c) # {}
          /\ lastCall.out = Returned(<<lastCall.node, d>>)

\* C11: whatever the two filters, the list get_clause(root, node_is_root=True)
\* returns contains root.
C11_ContainsRoot ==
    (lastCall.op = "get_clause" /\ lastCall.node_is_root) =>
        /\ lastCall.out.raised = ""
        /\ lastCall.node \in Range(lastCall.out.value)

\* C12: get_clause_root(node) returns, for every node of every tree, a clause
\* root that is the node or one of its ancestors; the walk over parent edges
\* ends at the tree's root at the latest, also when it meets no clause root.
C12_ReturnsClauseRoot ==
    lastCall.op = "get_clause_root" =>
        /\ lastCall.out.raised = ""
        /\ lastCall.out.value \in UpChain(tree, lastCall.node)
        /\ is_clause_root(tree, lastCall.out.value)

\* the parser attaches one more token (create_child): the first hangs on the
\* technical root, every other one on a token before it
AddToken(p, k) ==
    /\ lastCall.op = "none"
    /\ Len(tree.parent) < MaxNodes
    /\ p = Root <=> tree.parent = <<>>
    /\ p <= Len(tree.parent)
    /\ tree' = [parent |-> Append(tree.parent, p), kind |-> Append(tree.kind, k)]
    /\ UNCHANGED <<subclasses, wrapperUnion, lastCall>>
    /\ UNCHANGED ruleVars

\* one call of get_clause on the parsed tree
CallGetClause(node, ws, wp, nir) ==
    /\ lastCall.op = "none"
    /\ node \in TreeNodes(tree)
    /\ lastCall' = [op |-> "get_clause", node |-> node, without_subordinates |-> ws,
                    without_punctuation |-> wp, node_is_root |-> nir,
                    out |-> get_clause(tree, node, ws, wp, nir)]
    /\ UNCHANGED <<subclasses, wrapperUnion, tree>>
    /\ UNCHANGED ruleVars

\* one call of get_clause_root on the parsed tree
CallGetClauseRoot(node) ==
    /\ lastCall.op = "none"
    /\ node \in TreeNodes(tree)
    /\ lastCall' = [op |-> "get_clause_root", node |-> node,
                    out |-> LET r == get_clause_root(tree, node)
                            IN  IF r = NoNode THEN Raised("AttributeError") ELSE Returned(r)]
    /\ UNCHANGED <<subclasses, wrapperUnion, tree>>
    /\ UNCHANGED ruleVars

(***************************************************************************)
(* The rule instance: its application id, its counter and its measurement  *)
(* aggregator, and the annotation channel into node.misc.                   *)
(* A dict is a function on its keys.  A string the code builds is the       *)
(* sequence of the pieces it is built from: an annotation key is its        *)
(* ':'-separated segments, a number turned into text is its decimal digits. *)
(* The mean is a float in the code; here it is the exact fraction           *)
(* [num, den] in lowest terms, so the model never adds a rounding error.    *)
(***************************************************************************)

RULE_ANNOTATION_PREFIX == "PonkApp1"

\* os.urandom(4).hex(): any of the values the generator can return
AppIds == 1..NumIds

\* max_allowable_distance of RuleDoubleAdpos: the class default
DefaultMaxAllowableDistance == 4
\* max_allowable_distance of RuleDoubleAdpos in the 'minimal' profile
MinimalMaxAllowableDistance == 0

EmptyDict == [k \in {} |-> 0]

\* d.get(k) or default
Get(d, k, default) == IF k \in DOMAIN d THEN d[k] ELSE default

\* d[k] = v
Put(d, k, v) == [x \in DOMAIN d \cup {k} |-> IF x = k THEN v ELSE d[x]]

RECURSIVE GCD(_, _)
GCD(a, b) == IF b = 0 THEN a ELSE GCD(b, a % b)

\* the fraction n / d in lowest terms (n >= 0, d > 0)
Frac(n, d) == LET g == GCD(n, d) IN [num |-> n \div g, den |-> d \div g]

RECURSIVE Sum(_)
Sum(s) == IF s = <<>> THEN 0 ELSE Head(s) + Sum(Tail(s))

Digit(d) ==
    CASE d = 0 -> "0" [] d = 1 -> "1" [] d = 2 -> "2" [] d = 3 -> "3" [] d = 4 -> "4"
      [] d = 5 -> "5" [] d = 6 -> "6" [] d = 7 -> "7" [] d = 8 -> "8" [] d = 9 -> "9"

\* str(n) of a natural number: its decimal digits
RECURSIVE str(_)
str(n) == IF n < 10 THEN <<Digit(n)>> ELSE str(n \div 10) \o <<Digit(n % 10)>>

\* the rule classes of the model and the parameters each can be built with
RuleClasses == {"RuleDoubleAdpos", "RuleWeakMeaningWords", "RuleConfirmationExpressions"}

RuleParams(cls) ==
    IF cls = "RuleDoubleAdpos"
    THEN {[p \in {"max_allowable_distance"} |-> d] :
             d \in {DefaultMaxAllowableDistance, MinimalMaxAllowableDistance}}
    ELSE {EmptyDict}

\* a newly constructed instance: the field defaults, then model_post_init
NewRule(cls, params, id) ==
    [cls |-> cls,
     params |-> params,
     detect_only |-> TRUE,
     process_id |-> id,
     modified_roots |-> {},
     application_count |-> 0,
     average_measured_values |-> EmptyDict,
     measured_values |-> EmptyDict]

\* an annotation that replaces what the node carried
AnnotateReplacing(m, key, annotation, nodes) ==
    [n \in DOMAIN m |-> IF n \in Range(nodes) THEN Put(EmptyDict, key, annotation) ELSE m[n]]

\* Documentable.annotate_node: nd.misc[key] = annotation for every nd
Documentable_annotate_node(m, key, annotation, nodes) ==
    [n \in DOMAIN m |-> IF n \in Range(nodes) THEN Put(m[n], key, annotation) ELSE m[n]]

(***************************************************************************)
(* The methods below act on a frame st of one process_node call:           *)
(*   st.misc   node.misc of every token                                    *)
(*   st.self   the rule instance                                           *)
(*   st.idx    the position of the instance in the rule list               *)
(*   st.hist   the history variable findings: log, the findings annotated;  *)
(*             generated, the ids generated for each instance; calls, the   *)
(*             process_node calls made, as [rule, node]                     *)
(*   st.fresh  the values the next calls of os.urandom will return         *)
(***************************************************************************)

\* a key built with the name of the base class, whatever the class of self
RuleKeyOfBase(self, flag) ==
    <<RULE_ANNOTATION_PREFIX, "Rule", self.process_id>> \o flag

\* the key Rule.annotate_node builds: the prefix, cls.id() of the class of
\* self, process_id and, "if flag", the flag; flag is <<>> for no flag
RuleKey(self, flag) ==
    <<RULE_ANNOTATION_PREFIX, self.cls, self.process_id>> \o flag

\* Rule.annotate_node
annotate_node(st, annotation, nodes, flag) ==
    LET key == RuleKey(st.self, flag)
    IN  [st EXCEPT !.misc = Documentable_annotate_node(st.misc, key, annotation, nodes)]

\* Rule.do_measurement_calculations
do_measurement_calculations(self, m_name, m_value) ==
    LET old == Get(self.average_measured_values, m_name, Frac(0, 1))
        avg == Frac(old.num * self.application_count + m_value * old.den,
                    old.den * (self.application_count + 1))
    IN  [self EXCEPT
           !.average_measured_values = Put(@, m_name, avg),
           !.measured_values = Put(@, m_name, Append(Get(@, m_name, <<>>), m_value))]

\* Rule.annotate_measurement
annotate_measurement(st, m_name, m_value, nodes) ==
    LET a == annotate_node(st, str(m_value), nodes, <<"measur", m_name>>)
    IN  [a EXCEPT !.self = do_measurement_calculations(a.self, m_name, m_value)]

\* Rule.annotate_parameter
annotate_parameter(st, p_name, p_value, nodes) ==
    annotate_node(st, str(p_value), nodes, <<"param", p_name>>)

\* Rule.advance_application_id; the history notes the id that was generated
advance_application_id(st) ==
    [st EXCEPT !.self.process_id = Head(st.fresh),
               !.self.application_count = @ + 1,
               !.fresh = Tail(@),
               !.hist.generated[st.idx] = Append(@, Head(st.fresh))]

\* a reset that leaves the recorded values in place
ResetKeepsHistory(self) ==
    [self EXCEPT !.application_count = 0,
                 !.average_measured_values = EmptyDict]

\* a reset that clears the measurements but leaves the counter
ResetKeepsCount(self) ==
    [self EXCEPT !.average_measured_values = EmptyDict,
                 !.measured_values = EmptyDict]

\* Rule.reset_application_count
reset_application_count(self) ==
    [self EXCEPT !.application_count = 0,
                 !.average_measured_values = EmptyDict,
                 !.measured_values = EmptyDict]

\* history only: process_node starts to annotate one more logical finding,
\* under the id the instance has now, after so many ids generated for it
LogFinding(st) ==
    [st EXCEPT !.hist.log = Append(@, [rule |-> st.idx,
                                        id |-> st.self.process_id,
                                        epoch |-> Len(st.hist.generated[st.idx])])]


(***************************************************************************)
(* process_node of the rules.  Every instance of the model is built with   *)
(* detect_only = True, the default, so the branches under                  *)
(* "if not self.detect_only" are never entered and the tree stays as it is. *)
(***************************************************************************)

\* node.feats[name]: the empty string for a feature the node does not have
Feat(t, n, name) == Get(NodeAttrs(t, n).feats, name, "")

\* [nd for nd in coord_el2.siblings if nd.udeprel == "case" and nd.upos == "ADP"]
AdposSiblings(t, node) ==
    SortedFrom({nd \in Children(t, Parent(t, node)) \ {node} :
                   Udeprel(t, nd) = "case" /\ NodeAttrs(t, nd).upos = "ADP"},
               1, Len(t.parent))

\* ([None] + [c for c in coord_el2.children
\*            if c.deprel in ('cc', 'punct') and c.lemma != '.'])[-1]
LastCconj(t, coord_el2) ==
    LET cs == SortedFrom({c \in Children(t, coord_el2) :
                             /\ NodeAttrs(t, c).deprel \in {<<"cc">>, <<"punct">>}
                             /\ NodeAttrs(t, c).lemma # "."},
                         1, Len(t.parent))
    IN  IF cs = <<>> THEN NoNode ELSE cs[Len(cs)]

\* the body of the loop over parent_adpos in RuleDoubleAdpos.process_node
RECURSIVE DoubleAdposLoop(_, _, _, _, _)
DoubleAdposLoop(t, st, coord_el2, adps, i) ==
    IF i > Len(adps) THEN st
    ELSE
      LET parent_adpos == adps[i]
          coord_el1 == Parent(t, parent_adpos)
          dst == coord_el2 - coord_el1
          max == st.self.params["max_allowable_distance"]
          kids == Children(t, coord_el2)
          found ==
              /\ Feat(t, coord_el2, "Case") = Feat(t, coord_el1, "Case")
              /\ ~(dst <= max)
              /\ ~\E nd \in kids : NodeAttrs(t, nd).lemma = NodeAttrs(t, parent_adpos).lemma
              /\ ~\E nd \in kids : NodeAttrs(t, nd).upos = "ADP"
          cconj == LastCconj(t, coord_el2)
          all == <<cconj, parent_adpos, coord_el1, coord_el2>>
          s0 == LogFinding(st)
          s1 == IF cconj # NoNode
                THEN annotate_parameter(
                       annotate_measurement(
                         annotate_node(s0, <<"cconj">>, <<cconj>>, <<>>),
                         "max_allowable_distance", dst, all),
                       "max_allowable_distance", max, all)
                ELSE s0
          s2 == annotate_node(
                  annotate_node(
                    annotate_node(s1, <<"orig_adpos">>, <<parent_adpos>>, <<>>),
                    <<"coord_el1">>, <<coord_el1>>, <<>>),
                  <<"coord_el2">>, <<coord_el2>>, <<>>)
          s3 == advance_application_id(s2)
      IN  DoubleAdposLoop(t, IF found THEN s3 ELSE st, coord_el2, adps, i + 1)

\* RuleDoubleAdpos.process_node
RuleDoubleAdpos_process_node(t, st, node) ==
    IF NodeAttrs(t, node).deprel # <<"conj">> \/ Parent(t, Parent(t, node)) = NoNode
    THEN st
    ELSE DoubleAdposLoop(t, st, node, AdposSiblings(t, node), 1)

\* RuleWeakMeaningWords._weak_meaning_words
weak_meaning_words ==
    {"dopadat", "zamerit", "poukazat", "poukazovat", "ovlivnit", "ovlivnovat",
     "provadet", "provest", "postup", "obdobne", "velmi", "uskutecnit", "uskutecnovat"}

\* RuleWeakMeaningWords.process_node
RuleWeakMeaningWords_process_node(t, st, node) ==
    IF NodeAttrs(t, node).lemma \in weak_meaning_words
    THEN advance_application_id(
           annotate_node(LogFinding(st), <<"weak_meaning_word">>, <<node>>, <<>>))
    ELSE st

\* RuleConfirmationExpressions._expressions
expressions == {"jednoznacne", "jasne", "nepochybne", "naprosto", "rozhodne"}

\* RuleConfirmationExpressions.process_node
RuleConfirmationExpressions_process_node(t, st, node) ==
    IF NodeAttrs(t, node).lemma \in expressions
    THEN annotate_node(LogFinding(st), <<"confirmation_expression">>, <<node>>, <<>>)
    ELSE st

\* str.lower() on the lemmas and forms of the model
lower(text) ==
    CASE text = "Snad" -> "snad"
      [] text = "V" -> "v"
      [] OTHER -> text

\* RuleRelativisticExpressions._expressions: the lemmas of every expression
relativistic_expressions ==
    <<<<"ponekud">>, <<"jevit">>, <<"patrne">>, <<"do", "jisty", "mira">>,
      <<"snad">>, <<"jaksi">>>>

\* node.next_node: the next token of the sentence, None behind the last
next_node(t, n) == IF n < Len(t.parent) THEN n + 1 ELSE NoNode

\* the while loop of RuleRelativisticExpressions.process_node from the state
\* (nd_iterator, i, nodes); it gives the nodes collected when the loop ends
\* by its condition, so that the else branch runs, and <<>> when it breaks
RECURSIVE MatchLoop(_, _, _, _, _)
MatchLoop(t, expr, nd_iterator, i, nodes) ==
    LET nxt == next_node(t, nd_iterator)
    IN  IF nxt = NoNode THEN nodes
        ELSE IF ~(i + 1 < Len(expr)) THEN nodes
        ELSE IF lower(NodeAttrs(t, nxt).lemma) # expr[i + 2] THEN <<>>
        ELSE MatchLoop(t, expr, nxt, i + 1, Append(nodes, nxt))

\* an application id that advances behind every node it annotates
RECURSIVE AnnotateEach(_, _, _)
AnnotateEach(st, nodes, k) ==
    IF k > Len(nodes) THEN st
    ELSE AnnotateEach(
           advance_application_id(
             annotate_node(st, <<"relativistic_expression">>, <<nodes[k]>>, <<>>)),
           nodes, k + 1)

\* the nodes the else branch of the expression e annotates for node
MatchedNodes(t, node, e) ==
    IF lower(NodeAttrs(t, node).lemma) = relativistic_expressions[e][1]
    THEN MatchLoop(t, relativistic_expressions[e], node, 0, <<node>>)
    ELSE <<>>

\* the loop over expr in RuleRelativisticExpressions.process_node
RECURSIVE RelativisticLoop(_, _, _, _)
RelativisticLoop(t, st, node, e) ==
    IF e > Len(relativistic_expressions) THEN st
    ELSE RelativisticLoop(
           t,
           IF MatchedNodes(t, node, e) # <<>>
           THEN AnnotateEach(LogFinding(st), MatchedNodes(t, node, e), 1)
           ELSE st,
           node, e + 1)

\* RuleRelativisticExpressions.process_node
RuleRelativisticExpressions_process_node(t, st, node) ==
    RelativisticLoop(t, st, node, 1)

\* max_distance of RuleMultiPartVerbs: the class default
DefaultMaxDistance == 5
\* max_distance of RuleMultiPartVerbs in the 'minimal' profile
MinimalMaxDistance == 0

\* abs(n)
abs(n) == IF n < 0 THEN -n ELSE n

\* max_dst of RuleMultiPartVerbs.process_node: the largest abs(parent.ord - aux.ord)
RECURSIVE MaxDst(_, _)
MaxDst(parent, auxiliaries) ==
    IF auxiliaries = {} THEN 0
    ELSE LET aux == CHOOSE a \in auxiliaries : TRUE
             rest == MaxDst(parent, auxiliaries \ {aux})
         IN  IF abs(parent - aux) > rest THEN abs(parent - aux) ELSE rest

\* {k: v for k, v in node.misc.items()
\*  if k.split(':')[0] == self.rule_id and v == 'aux'}, as the set of its keys
MarkedAux(st, node) ==
    {k \in DOMAIN st.misc[node] : k[1] = st.self.cls /\ st.misc[node][k] = <<"aux">>}

\* RuleMultiPartVerbs.process_node
RuleMultiPartVerbs_process_node(t, st, node) ==
    IF is_aux(t, node, FALSE) /\ MarkedAux(st, node) = {}
    THEN LET parent == Parent(t, node)
             auxiliaries == {node} \cup {child \in Children(t, parent) : is_aux(t, child, FALSE)}
             max_dst == MaxDst(parent, auxiliaries)
             too_far_apart ==
                 \E aux \in auxiliaries : abs(parent - aux) > st.self.params["max_distance"]
             auxs == SortedFrom(auxiliaries, 1, Len(t.parent))
         IN  IF too_far_apart
             THEN advance_application_id(
                    annotate_parameter(
                      annotate_measurement(
                        annotate_node(
                          annotate_node(LogFinding(st), <<"head">>, <<parent>>, <<>>),
                          <<"aux">>, auxs, <<>>),
                        "max_distance", max_dst, <<parent>> \o auxs),
                      "max_distance", st.self.params["max_distance"], <<parent>> \o auxs))
             ELSE st
    ELSE st

\* RuleBlockWrapper.process_node: the process_node of the wrapped rule
process_node(t, st, node) ==
    CASE st.self.cls = "RuleDoubleAdpos" -> RuleDoubleAdpos_process_node(t, st, node)
      [] st.self.cls = "RuleMultiPartVerbs" -> RuleMultiPartVerbs_process_node(t, st, node)
      [] st.self.cls = "RuleRelativisticExpressions" ->
             RuleRelativisticExpressions_process_node(t, st, node)
      [] st.self.cls = "RuleWeakMeaningWords" -> RuleWeakMeaningWords_process_node(t, st, node)
      [] st.self.cls = "RuleConfirmationExpressions" ->
             RuleConfirmationExpressions_process_node(t, st, node)

\* how many ids one process_node call can draw at most
IdDraws(t, self, node) ==
    CASE self.cls = "RuleDoubleAdpos" -> Len(AdposSiblings(t, node))
      [] self.cls = "RuleWeakMeaningWords" -> 1
      [] self.cls = "RuleConfirmationExpressions" -> 0
      [] self.cls = "RuleMultiPartVerbs" -> 1
      [] self.cls = "RuleRelativisticExpressions" ->
             Sum([e \in DOMAIN relativistic_expressions |-> Len(MatchedNodes(t, node, e))])


(***************************************************************************)
(* Applying a rule list to a document, as stat_runner does for one file:   *)
(* each rule runs over every token in word order, and when all have run    *)
(* the counters are read and every rule is reset.  The document is the     *)
(* phrase "V lese" followed by up to MaxPhrases further phrases.           *)
(***************************************************************************)

\* "V lese": the preposition hangs on the noun, the noun on the technical root
HeadPhrase == [parent |-> <<2, Root>>, kind |-> <<"v", "lese">>]

PhraseNames == {"louce", "a louce", "v louce", "louku", "jasne", "velmi", "je"}

\* the tokens of a phrase appended after n tokens, each with its parent
Phrase(ph, n) ==
    CASE ph = "louce"   -> <<[kind |-> "louce", parent |-> 2]>>
      [] ph = "a louce" -> <<[kind |-> "a", parent |-> n + 2], [kind |-> "louce", parent |-> 2]>>
      [] ph = "v louce" -> <<[kind |-> "v", parent |-> n + 2], [kind |-> "louce", parent |-> 2]>>
      [] ph = "louku"   -> <<[kind |-> "louku", parent |-> 2]>>
      [] ph = "jasne"   -> <<[kind |-> "jasne", parent |-> 2]>>
      [] ph = "velmi"   -> <<[kind |-> "velmi", parent |-> 2]>>
      [] ph = "je"      -> <<[kind |-> "verb", parent |-> Root]>>

\* the phrases appended so far: each hangs on the head noun or on the root
PhraseCount(t) == Cardinality({n \in 3..Len(t.parent) : t.parent[n] \in {Root, 2}})

At(phase, rule, node) == [phase |-> phase, rule |-> rule, node |-> node]

\* one more phrase at the end of the document
AddPhrase(ph) ==
    /\ pc.phase = "build"
    /\ rules = <<>>
    /\ PhraseCount(tree) < MaxPhrases
    /\ LET toks == Phrase(ph, Len(tree.parent))
       IN  /\ tree' = [parent |-> tree.parent \o [i \in DOMAIN toks |-> toks[i].parent],
                       kind |-> tree.kind \o [i \in DOMAIN toks |-> toks[i].kind]]
           /\ misc' = misc \o [i \in DOMAIN toks |-> EmptyDict]
    /\ UNCHANGED <<rules, findings, pc>>
    /\ UNCHANGED regVars

\* Rule(...): one more instance at the end of the rule list
AddRule(cls, params, id) ==
    /\ pc.phase = "build"
    /\ Len(rules) < MaxRules
    /\ rules' = Append(rules, NewRule(cls, params, id))
    /\ findings' = [findings EXCEPT !.generated = Append(@, <<id>>)]
    /\ UNCHANGED <<tree, misc, pc>>
    /\ UNCHANGED regVars

\* the loop "for rule in rules: RuleBlockWrapper(rule).run(doc)" is entered
StartRun ==
    /\ pc.phase = "build"
    /\ rules # <<>>
    /\ pc' = At("run", 1, 1)
    /\ UNCHANGED <<tree, misc, rules, findings>>
    /\ UNCHANGED regVars

\* the visits in another order: every rule on a token before the next token
NextVisitTokenFirst(p, n_nodes, n_rules) ==
    IF p.rule < n_rules THEN At("run", p.rule + 1, p.node)
    ELSE IF p.node < n_nodes THEN At("run", 1, p.node + 1)
    ELSE At("after", n_rules, 0)

\* where the run goes after one process_node: Block.process_document walks
\* the tokens in word order for the rule at work, then the block is done
NextVisit(p, n_nodes, n_rules) ==
    IF p.node < n_nodes THEN At("run", p.rule, p.node + 1) ELSE At("after", p.rule, 0)

\* the block calls process_node of the rule at work on the next token
ProcessNode ==
    /\ pc.phase = "run"
    /\ \E fresh \in [1..IdDraws(tree, rules[pc.rule], pc.node) -> AppIds] :
          LET st == process_node(tree,
                                 [misc |-> misc, self |-> rules[pc.rule], idx |-> pc.rule,
                                  hist |-> findings, fresh |-> fresh],
                                 pc.node)
          IN  /\ misc' = st.misc
              /\ rules' = [rules EXCEPT ![pc.rule] = st.self]
              /\ findings' = [st.hist EXCEPT
                                 !.calls = Append(@, [rule |-> pc.rule, node |-> pc.node])]
    /\ pc' = NextVisit(pc, Len(tree.parent), Len(rules))
    /\ UNCHANGED tree
    /\ UNCHANGED regVars

\* Rule.after_process_document: the text of every modified root is rebuilt
\* (no root is modified while detect_only holds); then the next rule runs
AfterProcessDocument ==
    /\ pc.phase = "after"
    /\ rules[pc.rule].modified_roots = {}
    /\ pc' = IF pc.rule < Len(rules) THEN At("run", pc.rule + 1, 1) ELSE At("done", 0, 0)
    /\ UNCHANGED <<tree, misc, rules, findings>>
    /\ UNCHANGED regVars

\* "for rule in rules: rule.reset_application_count()"
ResetApplicationCount ==
    /\ pc.phase = "done"
    /\ rules' = [r \in DOMAIN rules |-> reset_application_count(rules[r])]
    /\ pc' = At("reset", 0, 0)
    /\ UNCHANGED <<tree, misc, findings>>
    /\ UNCHANGED regVars

(***************************************************************************)
(* Properties of the rule instance                                          *)
(***************************************************************************)

\* C1: whatever findings a rule has made, and however its recordings were
\* interleaved with advances of the application id, the mean it keeps for a
\* measurement is the arithmetic mean of the values recorded under that name.
C1_MeanIsArithmeticMean ==
    \A r \in DOMAIN rules :
        \A name \in DOMAIN rules[r].measured_values :
            LET h == rules[r].measured_values[name]
                a == rules[r].average_measured_values[name]
            IN  a.num * Len(h) = Sum(h) * a.den

\* C2: between the annotations of two findings of one instance the application
\* id is advanced: the later finding is written after more advances than the
\* earlier one.
C2_AdvanceBetweenFindings ==
    \A i, j \in DOMAIN findings.log :
        (i < j /\ findings.log[i].rule = findings.log[j].rule)
            => findings.log[i].epoch < findings.log[j].epoch

\* C3: the ids generated for one instance, at construction and at every
\* advance, are pairwise distinct, and no two findings of one instance carry
\* the same application id.
C3_FreshIds ==
    /\ \A r \in DOMAIN findings.generated :
          \A i, j \in DOMAIN findings.generated[r] :
              i # j => findings.generated[r][i] # findings.generated[r][j]
    /\ \A i, j \in DOMAIN findings.log :
          (i # j /\ findings.log[i].rule = findings.log[j].rule)
              => findings.log[i].id # findings.log[j].id

\* the aggregator of an instance: its counter, its means and its histories
Aggregator(self) ==
    [application_count |-> self.application_count,
     average_measured_values |-> self.average_measured_values,
     measured_values |-> self.measured_values]

\* C9: the reset leaves every instance with the counter, the means and the
\* histories of a new instance, so that a first recording of any value gives
\* the same counter, mean and history as on a new instance, and it changes no
\* annotation on any node.
C9_ResetLikeNew ==
    [][(pc.phase = "done" /\ pc'.phase = "reset") =>
          /\ misc' = misc
          /\ \A r \in DOMAIN rules :
                LET new == NewRule(rules[r].cls, rules[r].params, rules[r].process_id)
                IN  /\ Aggregator(rules'[r]) = Aggregator(new)
                    /\ \A v \in 0..Len(tree.parent) :
                          Aggregator(do_measurement_calculations(
                                         rules'[r], "max_allowable_distance", v))
                            = Aggregator(do_measurement_calculations(
                                             new, "max_allowable_distance", v))]_vars

\* a reset has run on a rule that had advanced and recorded a measurement,
\* and a node still carries the measurement annotation
C9_Witness ==
    /\ pc.phase = "reset"
    /\ \E r \in DOMAIN rules :
          /\ Len(findings.generated[r]) > 1
          /\ rules[r].application_count = 0
          /\ rules[r].measured_values = EmptyDict
    /\ \E n \in DOMAIN misc : \E key \in DOMAIN misc[n] :
          Len(key) > 3 /\ key[4] = "measur"


InitRule ==
    /\ subclasses = [c \in {Base} |-> <<>>]
    /\ wrapperUnion = <<>>
    /\ lastCall = [op |-> "none"]
    /\ tree = HeadPhrase
    /\ misc = [n \in 1..2 |-> EmptyDict]
    /\ rules = <<>>
    /\ findings = [log |-> <<>>, generated |-> <<>>, calls |-> <<>>]
    /\ pc = At("build", 0, 0)

NextRule ==
    \/ \E ph \in PhraseNames : AddPhrase(ph)
    \/ \E cls \in RuleClasses : \E params \in RuleParams(cls), id \in AppIds :
          AddRule(cls, params, id)
    \/ StartRun
    \/ ProcessNode
    \/ AfterProcessDocument
    \/ ResetApplicationCount

SpecRule == InitRule /\ [][NextRule]_vars


(***************************************************************************)
(* RulePredAtClauseBeginning: a caller of get_clause.  Its process_node is *)
(* applied to one node of a parsed tree by a newly built instance; node.misc *)
(* of the frame covers the technical root as well, which the rule can      *)
(* annotate.                                                               *)
(***************************************************************************)

\* max_order of RulePredAtClauseBeginning: the class default
DefaultMaxOrder == 5
\* max_order of RulePredAtClauseBeginning in the 'minimal' profile
MinimalMaxOrder == 0

\* the smallest element of a non-empty set of ords: predicate_tokens.sort(...)[0]
MinOrd(S) == CHOOSE x \in S : \A y \in S : x <= y

\* RulePredAtClauseBeginning.process_node: the frame after the call, or the
\* exception it raises
RulePredAtClauseBeginning_process_node(t, st, node) ==
    IF ~is_finite_verb(t, node) THEN Returned(st)
    ELSE
      LET pred_root == IF is_aux(t, node, FALSE) THEN Parent(t, node) ELSE node
          clause == get_clause(t, pred_root, TRUE, TRUE, TRUE).value
      IN  IF clause = <<>> THEN Raised("IndexError")
          ELSE
            LET clause_beginning == clause[1]
                predicate_set == {pred_root} \cup
                                   {child \in Children(t, pred_root) : is_aux(t, child, FALSE)}
                predicate_tokens == SortedFrom(predicate_set, 0, Len(t.parent))
                first_predicate_token == MinOrd(predicate_set)
                max_ord == first_predicate_token - clause_beginning + 1
                max_order == st.self.params["max_order"]
            IN  IF max_ord > max_order
                THEN Returned(
                       advance_application_id(
                         annotate_parameter(
                           annotate_measurement(
                             annotate_node(LogFinding(st), <<"predicate">>,
                                           predicate_tokens, <<>>),
                             "max_order", max_ord, predicate_tokens),
                           "max_order", max_order, predicate_tokens)))
                ELSE Returned(st)

\* a new RulePredAtClauseBeginning(max_order=...) processes one node of the tree
CallProcessNode(node, max_order, id) ==
    /\ lastCall.op = "none"
    /\ node \in TreeNodes(tree)
    /\ \E fresh \in [1..(IF is_finite_verb(tree, node) THEN 1 ELSE 0) -> AppIds] :
          LET self == NewRule("RulePredAtClauseBeginning",
                              [p \in {"max_order"} |-> max_order], id)
              st == [misc |-> [n \in 0..Len(tree.parent) |-> EmptyDict],
                     self |-> self, idx |-> 1,
                     hist |-> [log |-> <<>>, generated |-> <<<<id>>>>,
                              calls |-> <<[rule |-> 1, node |-> node]>>],
                     fresh |-> fresh]
              r == RulePredAtClauseBeginning_process_node(tree, st, node)
          IN  /\ lastCall' = [op |-> "process_node", node |-> node,
                              out |-> IF r.raised = "" THEN Returned(TRUE) ELSE r]
              /\ misc' = IF r.raised = "" THEN r.value.misc ELSE st.misc
              /\ rules' = <<IF r.raised = "" THEN r.value.self ELSE self>>
              /\ findings' = IF r.raised = "" THEN r.value.hist ELSE st.hist
    /\ UNCHANGED <<subclasses, wrapperUnion, tree, pc>>

\* C16: a caller of get_clause takes an empty list as "no clause": its
\* process_node completes without an error on every node of every tree.
C16_EmptyClauseGuarded ==
    lastCall.op = "process_node" => lastCall.out.raised = ""


InitClause ==
    /\ subclasses = [c \in {Base} |-> <<>>]
    /\ wrapperUnion = <<>>
    /\ lastCall = [op |-> "none"]
    /\ tree = [parent |-> <<>>, kind |-> <<>>]
    /\ NoRun

NextClause ==
    \/ \E p \in 0..MaxNodes, k \in Kinds : AddToken(p, k)
    \/ \E node \in 1..MaxNodes, ws \in BOOLEAN, wp \in BOOLEAN, nir \in BOOLEAN :
          CallGetClause(node, ws, wp, nir)
    \/ \E node \in 1..MaxNodes : CallGetClauseRoot(node)

SpecClause == InitClause /\ [][NextClause]_vars

\* a rule that calls get_clause, applied to the nodes of any parsed tree
NextCaller ==
    \/ \E p \in 0..MaxNodes, k \in Kinds : AddToken(p, k)
    \/ \E node \in 1..MaxNodes, max_order \in {DefaultMaxOrder, MinimalMaxOrder},
          id \in AppIds : CallProcessNode(node, max_order, id)

SpecCaller == InitClause /\ [][NextCaller]_vars

(***************************************************************************)
(* Metrics.  A metric reads doc.nodes, the tokens of the document in word  *)
(* order, and returns a float; here the float is the exact fraction, and a *)
(* division by zero is the exception the interpreter raises.               *)
(***************************************************************************)

Abs(n) == IF n < 0 THEN -n ELSE n

\* n / d for d # 0, in lowest terms with a positive denominator
Quot(n, d) ==
    LET g == GCD(Abs(n), Abs(d))
    IN  [num |-> (IF d < 0 THEN -n ELSE n) \div g, den |-> Abs(d) \div g]

RAdd(a, b) == Quot(a.num * b.den + b.num * a.den, a.den * b.den)

RECURSIVE RSum(_)
RSum(s) == IF s = <<>> THEN Quot(0, 1) ELSE RAdd(Head(s), RSum(Tail(s)))

\* statistics.mean of a non-empty list
mean(s) == LET t == RSum(s) IN Quot(t.num, t.den * Len(s))

\* list(doc.nodes)
DocNodes(t) == [i \in 1..Len(t.parent) |-> i]

\* Metric.filter_nodes_on_punct
filter_nodes_on_punct(t, nodes) ==
    SelectSeq(nodes, LAMBDA n : (NodeAttrs(t, n).upos \in {"PUNCT"}) # TRUE)

\* MetricPunctExcluding.get_applicable_nodes
get_applicable_nodes(t, filter_punct) ==
    IF filter_punct THEN filter_nodes_on_punct(t, DocNodes(t)) ELSE DocNodes(t)

\* Metric.get_node_texts
get_node_texts(t, nodes, use_lemma) ==
    [i \in DOMAIN nodes |->
        IF ~use_lemma THEN NodeAttrs(t, nodes[i]).form ELSE NodeAttrs(t, nodes[i]).lemma]

\* MetricWordCount.apply
MetricWordCount_apply(t, filter_punct) == Len(get_applicable_nodes(t, filter_punct))

\* s[a:b] of Python, for 0 <= a <= b
Slice(s, a, b) == SubSeq(s, a + 1, IF b < Len(s) THEN b ELSE Len(s))

\* MetricMovingAverageTypeTokenRatio.annotation_key
annotation_key == <<"mattr">>

\* the annotation holds a list while the windows slide and a float, the mean,
\* afterwards: a list is [items |-> ...], a float the fraction [num, den]
PyList(items) == [items |-> items]
IsFloat(v) == "num" \in DOMAIN v

\* an annotation that replaces the list by its newest value
AnnotationOverwrite(m, value, node) ==
    Documentable_annotate_node(m, annotation_key, PyList(<<value>>), <<node>>)

\* self.get_node_annotation(self.annotation_key, node) or []: None, an empty
\* list and 0.0 give the empty list, anything else is kept
AnnotationOrEmpty(m, node) ==
    IF annotation_key \notin DOMAIN m[node] THEN PyList(<<>>)
    ELSE IF IsFloat(m[node][annotation_key]) /\ m[node][annotation_key].num = 0
    THEN PyList(<<>>)
    ELSE m[node][annotation_key]

\* float + [value] raises TypeError
AddRaises(m, node) == IsFloat(AnnotationOrEmpty(m, node))

\* MetricMovingAverageTypeTokenRatio.add_to_annotation_list, when it returns
add_to_annotation_list(m, value, node) ==
    Documentable_annotate_node(m, annotation_key,
                               PyList(Append(AnnotationOrEmpty(m, node).items, value)),
                               <<node>>)

\* MetricMovingAverageTypeTokenRatio.calc_avg_value
calc_avg_value(m, node) ==
    Documentable_annotate_node(m, annotation_key, mean(m[node][annotation_key].items),
                               <<node>>)

\* "for node in filtered_nodes[i:i+window_size]: add_to_annotation_list(...)";
\* the loop stops at the first call that raises
RECURSIVE AnnotateWindow(_, _, _, _)
AnnotateWindow(m, value, nodes, k) ==
    IF k > Len(nodes) THEN [misc |-> m, raised |-> ""]
    ELSE IF AddRaises(m, nodes[k]) THEN [misc |-> m, raised |-> "TypeError"]
    ELSE AnnotateWindow(add_to_annotation_list(m, value, nodes[k]), value, nodes, k + 1)

\* a count of tokens instead of types: the positions of the window
WindowPositions(filtered_texts, i, window_size) ==
    {k \in DOMAIN filtered_texts : i < k /\ k <= i + window_size}

\* set(filtered_texts[i:i+self.window_size])
WindowUniques(filtered_texts, i, window_size) ==
    Range(Slice(filtered_texts, i, i + window_size))

\* range(int(total_words) - self.window_size + 1): the number of its values
WindowStarts(total_words, window_size) == total_words - window_size + 1

\* the sliding loop of apply, from start index i on; acc is [big_sum, misc]
RECURSIVE Slide(_, _, _, _, _, _)
Slide(acc, filtered_nodes, filtered_texts, window_size, i, stop) ==
    IF i >= stop \/ acc.raised # "" THEN acc
    ELSE LET uniques == WindowUniques(filtered_texts, i, window_size)
             count == Cardinality(uniques)
             w == AnnotateWindow(acc.misc, Quot(count, window_size),
                                 Slice(filtered_nodes, i, i + window_size), 1)
         IN  Slide([big_sum |-> acc.big_sum + count, misc |-> w.misc, raised |-> w.raised],
                   filtered_nodes, filtered_texts, window_size, i + 1, stop)

\* "for node in filtered_nodes: self.calc_avg_value(node)"
RECURSIVE AverageAll(_, _, _)
AverageAll(m, nodes, k) ==
    IF k > Len(nodes) THEN m ELSE AverageAll(calc_avg_value(m, nodes[k]), nodes, k + 1)

\* MetricMovingAverageTypeTokenRatio.apply: the result and node.misc after it
MetricMovingAverageTypeTokenRatio_apply(t, m, window_size, use_lemma, filter_punct) ==
    LET total_words == MetricWordCount_apply(t, filter_punct)
        filtered_nodes == get_applicable_nodes(t, filter_punct)
        filtered_texts == get_node_texts(t, filtered_nodes, use_lemma)
        slid == Slide([big_sum |-> 0, misc |-> m, raised |-> ""], filtered_nodes,
                      filtered_texts, window_size, 0, WindowStarts(total_words, window_size))
        m2 == IF total_words >= window_size
              THEN AverageAll(slid.misc, filtered_nodes, 1)
              ELSE slid.misc
        d == window_size * (total_words - window_size + 1)
    IN  IF slid.raised # "" THEN [misc |-> slid.misc, out |-> Raised(slid.raised)]
        ELSE
        [misc |-> m2,
         out |-> IF d = 0 THEN Raised("ZeroDivisionError")
                 ELSE Returned(Quot(slid.big_sum, d))]


\* the token kinds the documents of the metrics are built from
WordKinds == {"noun", "verb", "part", "adj", "punct"}

\* the parser appends one more token to the document
AddWord(k) ==
    /\ lastCall.op = "none"
    /\ Len(tree.parent) < MaxWords
    /\ tree' = [parent |-> Append(tree.parent, IF tree.parent = <<>> THEN Root ELSE 1),
                kind |-> Append(tree.kind, k)]
    /\ misc' = Append(misc, EmptyDict)
    /\ UNCHANGED <<subclasses, wrapperUnion, lastCall, rules, findings, pc>>

\* one call of MetricMovingAverageTypeTokenRatio(...).apply(doc)
ApplyMattr(window_size, use_lemma, filter_punct) ==
    /\ lastCall.op = "none"
    /\ LET r == MetricMovingAverageTypeTokenRatio_apply(tree, misc, window_size,
                                                        use_lemma, filter_punct)
       IN  /\ misc' = r.misc
           /\ lastCall' = [op |-> "mattr", window_size |-> window_size,
                           use_lemma |-> use_lemma, filter_punct |-> filter_punct,
                           out |-> r.out]
    /\ UNCHANGED <<subclasses, wrapperUnion, tree, rules, findings, pc>>

\* the same metric instance applied to the same document once more
ApplyMattrAgain ==
    /\ lastCall.op = "mattr"
    /\ lastCall.out.raised = ""
    /\ LET r == MetricMovingAverageTypeTokenRatio_apply(tree, misc, lastCall.window_size,
                                                        lastCall.use_lemma,
                                                        lastCall.filter_punct)
       IN  /\ misc' = r.misc
           /\ lastCall' = [lastCall EXCEPT !.op = "mattr_again", !.out = r.out]
                             @@ [first |-> lastCall.out]
    /\ UNCHANGED <<subclasses, wrapperUnion, tree, rules, findings, pc>>

(***************************************************************************)
(* Properties of the moving-average type-token ratio                        *)
(***************************************************************************)

\* the tokens the metric counts
Counted(t, filter_punct) ==
    {n \in TreeNodes(t) : ~(filter_punct /\ NodeAttrs(t, n).upos = "PUNCT")}

\* the 0-based position of a counted token among the counted tokens
PosOf(t, filter_punct, n) == Cardinality({c \in Counted(t, filter_punct) : c < n})

\* the text of a token
TextOf(t, use_lemma, n) ==
    IF use_lemma THEN NodeAttrs(t, n).lemma ELSE NodeAttrs(t, n).form

\* u(i): the number of distinct texts in the window that starts at position i
U(t, W, use_lemma, filter_punct, i) ==
    Cardinality({TextOf(t, use_lemma, n) :
                    n \in {c \in Counted(t, filter_punct) :
                              PosOf(t, filter_punct, c) \in i..(i + W - 1)}})

\* the sum of u(i) over a set of window starts
RECURSIVE SumU(_, _, _, _, _)
SumU(t, W, use_lemma, filter_punct, I) ==
    IF I = {} THEN 0
    ELSE LET i == CHOOSE x \in I : TRUE
         IN  U(t, W, use_lemma, filter_punct, i)
               + SumU(t, W, use_lemma, filter_punct, I \ {i})

\* N and W of the last call
LastN == Cardinality(Counted(tree, lastCall.filter_punct))
LastW == lastCall.window_size

\* C13: with N >= W the score is the sum of u(i) over every start index i in
\* [0, N-W], divided by W * (N - W + 1).
C13_MattrScore ==
    (lastCall.op = "mattr" /\ LastN >= LastW) =>
        lastCall.out = Returned(Quot(SumU(tree, LastW, lastCall.use_lemma,
                                          lastCall.filter_punct, 0..(LastN - LastW)),
                                     LastW * (LastN - LastW + 1)))

\* tokens A A B B with window 2: the score is 4/6
C13_Witness ==
    /\ lastCall.op = "mattr"
    /\ LastW = 2
    /\ tree.kind = <<"noun", "noun", "verb", "verb">>
    /\ lastCall.out = Returned([num |-> 2, den |-> 3])

\* C14: with N < W the call rejects the input and returns no score.
C14_ShortInputRejected ==
    (lastCall.op = "mattr" /\ LastN < LastW) => lastCall.out.raised # ""

\* C15: with N >= W every counted token at position p carries, under
\* annotation_key, the mean of u(i)/W over exactly the windows i with
\* i <= p < i + W, and a token the punctuation filter excludes carries nothing.
C15_TokenAnnotation ==
    (lastCall.op = "mattr" /\ LastN >= LastW) =>
        \A n \in TreeNodes(tree) :
            IF n \in Counted(tree, lastCall.filter_punct)
            THEN LET pos == PosOf(tree, lastCall.filter_punct, n)
                     I == {i \in 0..(LastN - LastW) : i <= pos /\ pos < i + LastW}
                 IN  /\ annotation_key \in DOMAIN misc[n]
                     /\ misc[n][annotation_key]
                          = Quot(SumU(tree, LastW, lastCall.use_lemma,
                                      lastCall.filter_punct, I),
                                 LastW * Cardinality(I))
            ELSE annotation_key \notin DOMAIN misc[n]

\* a token lies in two windows with different ratios (1/2 and 2/2) and a
\* punctuation token was filtered out
C15_Witness ==
    /\ lastCall.op = "mattr"
    /\ LastW = 2
    /\ LastN > LastW
    /\ \E n \in TreeNodes(tree) : n \notin Counted(tree, lastCall.filter_punct)
    /\ \E n \in TreeNodes(tree) :
          /\ annotation_key \in DOMAIN misc[n]
          /\ misc[n][annotation_key] = [num |-> 3, den |-> 4]

\* C29: applying the metric twice to one document with N >= W, with the same
\* annotation_key and no rule run in between, completes both times and gives
\* the same score.
C29_Repeatable ==
    (lastCall.op = "mattr_again" /\ LastN >= LastW) =>
        /\ lastCall.out.raised = ""
        /\ lastCall.out = lastCall.first

(***************************************************************************)
(* The ratio metrics.  A document of the model is one sentence, so          *)
(* len(doc.bundles) is 1, and 0 for the document without tokens.           *)
(***************************************************************************)

RSub(a, b) == Quot(a.num * b.den - b.num * a.den, a.den * b.den)

RMul(a, b) == Quot(a.num * b.num, a.den * b.den)

Max(a, b) == IF a >= b THEN a ELSE b

\* MetricSentenceCount.apply
MetricSentenceCount_apply(t) == IF t.parent = <<>> THEN 0 ELSE 1

\* sum(len(node.form) for node in nodes)
RECURSIVE SumFormLen(_, _)
SumFormLen(t, nodes) ==
    IF nodes = <<>> THEN 0
    ELSE Len(NodeAttrs(t, Head(nodes)).form) + SumFormLen(t, Tail(nodes))

\* MetricCharacterCount.apply
MetricCharacterCount_apply(t, count_spaces, filter_punct) ==
    LET filtered_nodes == get_applicable_nodes(t, filter_punct)
    IN  SumFormLen(t, filtered_nodes) + (IF count_spaces THEN Len(filtered_nodes) ELSE 0)

\* Metric.count_occurrences_of_unique_texts
count_occurrences_of_unique_texts(node_texts) ==
    [text \in Range(node_texts) |->
        Cardinality({i \in DOMAIN node_texts : node_texts[i] = text})]

\* Metric.get_word_counts without from_to
get_word_counts(t, nodes, use_lemma) ==
    count_occurrences_of_unique_texts(get_node_texts(t, nodes, use_lemma))

\* sum(counts.values())
RECURSIVE SumValues(_, _)
SumValues(counts, keys) ==
    IF keys = {} THEN 0
    ELSE LET k == CHOOSE x \in keys : TRUE
         IN  counts[k] + SumValues(counts, keys \ {k})

\* MetricCLI.apply
MetricCLI_apply(t, count_spaces, filter_punct) ==
    LET sents == MetricSentenceCount_apply(t)
        words == MetricWordCount_apply(t, filter_punct)
        chars == MetricCharacterCount_apply(t, count_spaces, filter_punct)
    IN  IF words = 0 THEN Raised("ZeroDivisionError")
        ELSE Returned(
               RSub(RSub(RMul(RMul(Quot(47, 1000), Quot(chars, words)), Quot(100, 1)),
                         RMul(RMul(Quot(286, 1000), Quot(sents, words)), Quot(100, 1))),
                    Quot(129, 10)))

\* MetricTTR.apply
MetricTTR_apply(t, filter_punct) ==
    LET counts == get_word_counts(t, get_applicable_nodes(t, filter_punct), TRUE)
        total == SumValues(counts, DOMAIN counts)
    IN  IF total = 0 THEN Raised("ZeroDivisionError")
        ELSE Returned(Quot(Cardinality(DOMAIN counts), total))

\* MetricAverageTokenLength.apply
MetricAverageTokenLength_apply(t, filter_punct) ==
    LET total_tokens == MetricWordCount_apply(t, filter_punct)
        total_chars == MetricCharacterCount_apply(t, FALSE, filter_punct)
    IN  IF total_tokens = 0 THEN Raised("ZeroDivisionError")
        ELSE Returned(Quot(total_chars, total_tokens))

\* the loop of MetricVerbDistance.apply; i is the 0-based index
RECURSIVE VerbDistanceLoop(_, _, _, _, _)
VerbDistanceLoop(t, nodes, include_inf, acc, i) ==
    IF i >= Len(nodes) THEN acc
    ELSE LET node == nodes[i + 1]
             hit == /\ NodeAttrs(t, node).upos = "VERB"
                    /\ (include_inf \/ Feat(t, node, "VerbForm") = "Fin")
         IN  VerbDistanceLoop(t, nodes, include_inf,
                 IF hit
                 THEN [last_verb_index |-> i,
                       total_distance |-> acc.total_distance
                                            + Max(0, i - acc.last_verb_index - 1),
                       verbs |-> acc.verbs + 1]
                 ELSE acc,
                 i + 1)

\* MetricVerbDistance.apply
MetricVerbDistance_apply(t, include_inf) ==
    LET nodes == DocNodes(t)
        acc == VerbDistanceLoop(t, nodes, include_inf,
                                [last_verb_index |-> 0, total_distance |-> 0, verbs |-> 0], 0)
        total_distance == acc.total_distance + Len(nodes) - acc.last_verb_index
    IN  Returned(Quot(total_distance, Max(1, acc.verbs)))

\* MetricActivity.apply
MetricActivity_apply(t) ==
    LET nodes == DocNodes(t)
        verbs == SelectSeq(nodes, LAMBDA n : (NodeAttrs(t, n).upos \in {"VERB"}) # FALSE)
        both == SelectSeq(nodes, LAMBDA n : (NodeAttrs(t, n).upos \in {"VERB", "ADJ"}) # FALSE)
    IN  Returned(Quot(Max(1, Len(verbs)), Max(1, Len(both))))

\* the ratio metrics of the model, by metric_id
RatioMetrics == {"cli", "ttr", "atl", "verb_dist", "activity"}

\* metric.apply(doc); flag is count_spaces of cli and include_inf of verb_dist
Metric_apply(t, metric_id, filter_punct, flag) ==
    CASE metric_id = "cli" -> MetricCLI_apply(t, flag, filter_punct)
      [] metric_id = "ttr" -> MetricTTR_apply(t, filter_punct)
      [] metric_id = "atl" -> MetricAverageTokenLength_apply(t, filter_punct)
      [] metric_id = "verb_dist" -> MetricVerbDistance_apply(t, flag)
      [] metric_id = "activity" -> MetricActivity_apply(t)

\* one call of metric.apply(doc) for a ratio metric
ApplyMetric(metric_id, filter_punct, flag) ==
    /\ lastCall.op = "none"
    /\ lastCall' = [op |-> "metric", metric_id |-> metric_id, filter_punct |-> filter_punct,
                    flag |-> flag, out |-> Metric_apply(tree, metric_id, filter_punct, flag)]
    /\ UNCHANGED <<subclasses, wrapperUnion, tree, misc, rules, findings, pc>>

\* C17: a ratio metric returns a value for every document, also for one with
\* no counted word or no sentence: no call fails with a division by zero.
C17_DenominatorsGuarded ==
    lastCall.op = "metric" => lastCall.out.raised = ""

\* how many tokens of the document have their upos in S
CountUpos(t, S) == Cardinality({n \in TreeNodes(t) : NodeAttrs(t, n).upos \in S})

\* C28: for every document with a verb or an adjective MetricActivity returns
\* #VERB / (#VERB + #ADJ); for one with adjectives and no verb that is 0.
C28_ActivityRatio ==
    (/\ lastCall.op = "metric"
     /\ lastCall.metric_id = "activity"
     /\ CountUpos(tree, {"VERB", "ADJ"}) # 0) =>
        /\ lastCall.out.raised = ""
        /\ lastCall.out.value
             = Quot(CountUpos(tree, {"VERB"}), CountUpos(tree, {"VERB", "ADJ"}))

InitMetric ==
    /\ subclasses = [c \in {Base} |-> <<>>]
    /\ wrapperUnion = <<>>
    /\ lastCall = [op |-> "none"]
    /\ tree = [parent |-> <<>>, kind |-> <<>>]
    /\ misc = <<>>
    /\ rules = <<>>
    /\ findings = [log |-> <<>>, generated |-> <<>>, calls |-> <<>>]
    /\ pc = [phase |-> "off", rule |-> 0, node |-> 0]

NextMetric ==
    \/ \E k \in WordKinds : AddWord(k)
    \/ \E window_size \in 1..MaxWindow, use_lemma \in BOOLEAN, filter_punct \in BOOLEAN :
          ApplyMattr(window_size, use_lemma, filter_punct)
    \/ ApplyMattrAgain
    \/ \E metric_id \in RatioMetrics, filter_punct \in BOOLEAN, flag \in BOOLEAN :
          ApplyMetric(metric_id, filter_punct, flag)

SpecMetric == InitMetric /\ [][NextMetric]_vars


(***************************************************************************)
(* The batch driver (stat_runner): for every file it loads the document,   *)
(* applies the default metrics, runs the rules of the 'minimal' profile,   *)
(* reads the counters, means, standard deviations and histories, resets    *)
(* every rule and writes one row.  lastCall is the driver's latest step    *)
(* and carries the number of rows written so far.                          *)
(***************************************************************************)

\* MetricMovingAverageTypeTokenRatio.window_size: the class default
DefaultWindowSize == 100

\* profiles['minimal'][1], the rule classes of the model in the profile's order
minimal_profile_rules(ids) ==
    <<NewRule("RuleDoubleAdpos",
              [p \in {"max_allowable_distance"} |-> MinimalMaxAllowableDistance], ids[1]),
      NewRule("RuleWeakMeaningWords", EmptyDict, ids[2]),
      NewRule("RuleConfirmationExpressions", EmptyDict, ids[3])>>

\* history of a document that is about to be processed
FreshHistory(rs) ==
    [log |-> <<>>, generated |-> [r \in DOMAIN rs |-> <<rs[r].process_id>>], calls |-> <<>>]

\* the phrases the documents of the batch are made of
BatchPhrases == {"a louce", "jasne", "velmi"}

\* doc = Document(...): the parser appends one more phrase
LoadPhrase(ph) ==
    /\ pc.phase = "load"
    /\ PhraseCount(tree) < MaxPhrases
    /\ LET toks == Phrase(ph, Len(tree.parent))
       IN  /\ tree' = [parent |-> tree.parent \o [i \in DOMAIN toks |-> toks[i].parent],
                       kind |-> tree.kind \o [i \in DOMAIN toks |-> toks[i].kind]]
           /\ misc' = misc \o [i \in DOMAIN toks |-> EmptyDict]
    /\ UNCHANGED <<rules, findings, pc>>
    /\ UNCHANGED regVars

\* metric_results = {metric.metric_id: metric.apply(doc) for metric in metrics},
\* every metric built with its defaults; then the rule loop is entered
ApplyMetrics ==
    /\ pc.phase = "load"
    /\ LET mattr == MetricMovingAverageTypeTokenRatio_apply(tree, misc, DefaultWindowSize,
                                                            TRUE, TRUE)
           results == [id \in RatioMetrics \cup {"mattr"} |->
                          IF id = "mattr" THEN mattr.out
                          ELSE Metric_apply(tree, id, TRUE, id = "verb_dist")]
           failed == {id \in DOMAIN results : results[id].raised # ""}
       IN  /\ misc' = mattr.misc
           /\ IF failed = {}
              THEN /\ lastCall' = [op |-> "metrics", rows |-> lastCall.rows,
                                   metric_results |-> [id \in DOMAIN results |->
                                                          results[id].value]]
                   /\ pc' = At("run", 1, 1)
              ELSE /\ lastCall' = [op |-> "crash", rows |-> lastCall.rows,
                                   raised |-> "ZeroDivisionError"]
                   /\ pc' = At("crashed", 0, 0)
    /\ UNCHANGED <<subclasses, wrapperUnion, tree, rules, findings>>

\* the sample variance of a list of at least two numbers: stdev is its root
variance(s) ==
    LET n == Len(s)
        sq == [i \in DOMAIN s |-> s[i] * s[i]]
    IN  Quot(n * Sum(sq) - Sum(s) * Sum(s), n * (n - 1))

\* statistics.stdev: fails for fewer than two values
stdev(s) == IF Len(s) < 2 THEN Raised("StatisticsError")
            ELSE Returned([squared |-> variance(s)])

\* the instance a dict comprehension over rules keeps for a rule_id: the last
LastWithId(rs, rule_id) ==
    rs[CHOOSE r \in DOMAIN rs :
          /\ rs[r].cls = rule_id
          /\ \A q \in DOMAIN rs : rs[q].cls = rule_id => q <= r]

\* the lines of the driver between the rule loop and the next file: the
\* results are read, every rule is reset, the row is written
EmitRow ==
    /\ pc.phase = "done"
    /\ LET ids == {rules[r].cls : r \in DOMAIN rules}
           measuring == {rules[r].cls : r \in {q \in DOMAIN rules :
                                    rules[q].average_measured_values # EmptyDict}}
           rule_results == [id \in ids |-> LastWithId(rules, id).application_count]
           avg_measures == [id \in measuring |->
                               LastWithId(rules, id).average_measured_values]
           sds == [id \in measuring |->
                      [name \in DOMAIN LastWithId(rules, id).measured_values |->
                          stdev(LastWithId(rules, id).measured_values[name])]]
           measurements == [id \in measuring |-> LastWithId(rules, id).measured_values]
           failed == \E id \in measuring : \E name \in DOMAIN sds[id] :
                         sds[id][name].raised # ""
       IN  IF failed
           THEN /\ lastCall' = [op |-> "crash", rows |-> lastCall.rows,
                                raised |-> "StatisticsError"]
                /\ pc' = At("crashed", 0, 0)
                /\ UNCHANGED rules
           ELSE /\ lastCall' = [op |-> "writerow", rows |-> lastCall.rows + 1,
                                row |-> [name |-> lastCall.rows + 1,
                                         metric_results |-> lastCall.metric_results,
                                         rule_results |-> rule_results,
                                         avg |-> avg_measures,
                                         sd |-> [id \in measuring |->
                                                   [name \in DOMAIN sds[id] |->
                                                       sds[id][name].value]],
                                         meas |-> measurements]]
                /\ rules' = [r \in DOMAIN rules |-> reset_application_count(rules[r])]
                /\ pc' = At("emitted", 0, 0)
    /\ UNCHANGED <<subclasses, wrapperUnion, tree, misc, findings>>

\* "for filename in files": the next file is loaded
NextFile ==
    /\ pc.phase = "emitted"
    /\ lastCall.rows < MaxFiles
    /\ tree' = HeadPhrase
    /\ misc' = [n \in 1..2 |-> EmptyDict]
    /\ findings' = FreshHistory(rules)
    /\ pc' = At("load", 0, 0)
    /\ lastCall' = [op |-> "load", rows |-> lastCall.rows]
    /\ UNCHANGED <<subclasses, wrapperUnion, rules>>

InitBatch ==
    /\ subclasses = [c \in {Base} |-> <<>>]
    /\ wrapperUnion = <<>>
    /\ lastCall = [op |-> "load", rows |-> 0]
    /\ tree = HeadPhrase
    /\ misc = [n \in 1..2 |-> EmptyDict]
    /\ rules \in {minimal_profile_rules(ids) : ids \in [1..3 -> AppIds]}
    /\ findings = FreshHistory(rules)
    /\ pc = At("load", 0, 0)

NextBatch ==
    \/ \E ph \in BatchPhrases : LoadPhrase(ph)
    \/ ApplyMetrics
    \/ ProcessNode
    \/ AfterProcessDocument
    \/ EmitRow
    \/ NextFile

SpecBatch == InitBatch /\ [][NextBatch]_vars



(***************************************************************************)
(* Properties of the drivers                                                *)
(***************************************************************************)

\* the finding e of the history has left an annotation on some node
Annotated(e) ==
    \E n \in DOMAIN misc : \E key \in DOMAIN misc[n] :
        SubSeq(key, 1, 3) = <<RULE_ANNOTATION_PREFIX, rules[e.rule].cls, e.id>>

\* C18: the instances are applied one at a time in list order: process_node
\* is called for every token by instance k before it is called for any token
\* by instance k+1, and what an earlier instance has annotated is on the tree
\* while a later one runs.
C18_RulesInListOrder ==
    LET calls == findings.calls
    IN  /\ \A i, j \in DOMAIN calls :
              i < j => \/ calls[i].rule < calls[j].rule
                       \/ calls[i].rule = calls[j].rule /\ calls[i].node < calls[j].node
        /\ \A j \in DOMAIN calls : \A k \in 1..(calls[j].rule - 1) :
              \A n \in TreeNodes(tree) :
                  \E i \in 1..(j - 1) : calls[i] = [rule |-> k, node |-> n]
        /\ \A e \in Range(findings.log) : Annotated(e)

\* the second instance is at work on a tree that carries a finding of the first
C18_Witness ==
    /\ pc.phase = "run"
    /\ pc.rule = 2
    /\ pc.node > 1
    /\ \E e \in Range(findings.log) : e.rule = 1 /\ Annotated(e)

\* C19: every document starts with the counter, means and histories of every
\* rule as on a new instance, the counter of a rule is the number of its
\* advances on the document at hand, no more values are recorded than the
\* document has findings, and the row reports that counter.
C19_ResetBetweenDocuments ==
    /\ pc.phase = "load" =>
          \A r \in DOMAIN rules :
              Aggregator(rules[r])
                = Aggregator(NewRule(rules[r].cls, rules[r].params, rules[r].process_id))
    /\ pc.phase \in {"run", "after", "done"} =>
          \A r \in DOMAIN rules :
              /\ rules[r].application_count = Len(findings.generated[r]) - 1
              /\ \A name \in DOMAIN rules[r].measured_values :
                    Len(rules[r].measured_values[name])
                      <= Cardinality({i \in DOMAIN findings.log : findings.log[i].rule = r})
    /\ lastCall.op = "writerow" =>
          \A r \in DOMAIN rules :
              lastCall.row.rule_results[rules[r].cls] = Len(findings.generated[r]) - 1

\* the row of the second file reports findings, after the rules were reset
\* behind a first file
C19_Witness ==
    /\ lastCall.op = "writerow"
    /\ lastCall.rows = 2
    /\ lastCall.row.rule_results["RuleDoubleAdpos"] > 0
    /\ lastCall.row.meas # EmptyDict
    /\ \A r \in DOMAIN rules : rules[r].application_count = 0

\* C20: the driver writes a row for every document whatever the number of
\* findings and recorded values of its rules: it never stops on a document.
C20_RowForEveryDocument ==
    lastCall.op # "crash"


(***************************************************************************)
(* RuleDoubleAdpos built with detect_only = False: process_node adds a     *)
(* copy of the adposition to the second coordination element.  A node is   *)
(* its ord, so when the copy takes its place in the sentence the tokens    *)
(* behind it, and every reference to them, move up by one.  The documents  *)
(* are those of the rule list; their adpositions have no children, so the  *)
(* copy has none either.  lastCall carries the text the root holds.        *)
(***************************************************************************)

\* the kind of a copy whose form is node.form.lower()
Lowered(k) == IF k = "v" THEN "v_low" ELSE k

\* the ord a token has once a node has been placed at ord pos
Shift(n, pos) == IF n >= pos THEN n + 1 ELSE n

\* parent.create_child(...) followed by the shift of the child to ord pos
InsertNode(t, pos, k, p) ==
    LET old(i) == IF i < pos THEN i ELSE i - 1
    IN  [parent |-> [i \in 1..(Len(t.parent) + 1) |->
                        IF i = pos THEN Shift(p, pos) ELSE Shift(t.parent[old(i)], pos)],
         kind |-> [i \in 1..(Len(t.parent) + 1) |->
                      IF i = pos THEN k ELSE t.kind[old(i)]]]

\* the misc of the tokens once the copy, with misc new, stands at ord pos
InsertMisc(m, pos, new) ==
    [i \in 1..(Len(m) + 1) |-> IF i = pos THEN new ELSE m[IF i < pos THEN i ELSE i - 1]]

\* util.clone_node, filter_misc_keys = r"^(?!Rule).*": the keys of node.misc
\* that do not begin with "Rule"
FilteredMisc(d) ==
    [k \in {x \in DOMAIN d : x[1] \notin RuleClasses} |-> d[k]]

\* root.compute_text(): the forms of the tokens in word order
compute_text(t) == [i \in 1..Len(t.parent) |-> Token(t.kind[i]).form]

\* the conditions under which RuleDoubleAdpos reports the coordination
IsDoubleAdpos(t, self, coord_el2, parent_adpos) ==
    /\ Feat(t, coord_el2, "Case") = Feat(t, Parent(t, parent_adpos), "Case")
    /\ ~(coord_el2 - Parent(t, parent_adpos) <= self.params["max_allowable_distance"])
    /\ ~\E nd \in Children(t, coord_el2) :
           NodeAttrs(t, nd).lemma = NodeAttrs(t, parent_adpos).lemma
    /\ ~\E nd \in Children(t, coord_el2) : NodeAttrs(t, nd).upos = "ADP"

\* where the copy goes: shift_after_subtree(cconj), or shift_before_node of
\* the first token of the subtree of coord_el2
CorrectionOrd(t, coord_el2, cconj) ==
    IF cconj # NoNode
    THEN Descendants(t, cconj)[Len(Descendants(t, cconj))] + 1
    ELSE Descendants(t, coord_el2)[1]

\* the annotations of one finding, from 'cconj' to the advance of the id
AnnotateDoubleAdpos(st, cconj, parent_adpos, coord_el1, coord_el2, dst) ==
    LET all == <<cconj, parent_adpos, coord_el1, coord_el2>>
        max == st.self.params["max_allowable_distance"]
        s1 == IF cconj # NoNode
              THEN annotate_parameter(
                     annotate_measurement(
                       annotate_node(st, <<"cconj">>, <<cconj>>, <<>>),
                       "max_allowable_distance", dst, all),
                     "max_allowable_distance", max, all)
              ELSE st
    IN  advance_application_id(
          annotate_node(
            annotate_node(
              annotate_node(s1, <<"orig_adpos">>, <<parent_adpos>>, <<>>),
              <<"coord_el1">>, <<coord_el1>>, <<>>),
            <<"coord_el2">>, <<coord_el2>>, <<>>))

\* one correction: the copy is created and placed at ord pos, the copy and
\* the finding are annotated, the id advances, the root is noted;
\* c is [t, st, raised, corrections]
Correction(c, coord_el2, parent_adpos, cconj, pos) ==
    LET t1 == InsertNode(c.t, pos, Lowered(c.t.kind[parent_adpos]), coord_el2)
        m1 == InsertMisc(c.st.misc, pos, FilteredMisc(c.st.misc[parent_adpos]))
        s0 == annotate_node(LogFinding([c.st EXCEPT !.misc = m1]), <<"add">>, <<pos>>, <<>>)
        s3 == AnnotateDoubleAdpos(s0, Shift(cconj, pos), Shift(parent_adpos, pos),
                                  Shift(Parent(c.t, parent_adpos), pos),
                                  Shift(coord_el2, pos),
                                  coord_el2 - Parent(c.t, parent_adpos))
    IN  \* self.modified_roots.add(cconj.root): None has no attribute root
        IF cconj = NoNode
        THEN [t |-> t1, st |-> s3, raised |-> "AttributeError",
              corrections |-> c.corrections + 1]
        ELSE [t |-> t1, st |-> [s3 EXCEPT !.self.modified_roots = @ \cup {Root}],
              raised |-> "", corrections |-> c.corrections + 1]

\* the loop over parent_adpos of RuleDoubleAdpos.process_node when
\* detect_only is False
RECURSIVE CorrectingLoop(_, _, _, _)
CorrectingLoop(c, coord_el2, adps, i) ==
    IF i > Len(adps) \/ c.raised # "" THEN c
    ELSE IF IsDoubleAdpos(c.t, c.st.self, coord_el2, adps[i])
    THEN LET pos == CorrectionOrd(c.t, coord_el2, LastCconj(c.t, coord_el2))
         IN  CorrectingLoop(
                 Correction(c, coord_el2, adps[i], LastCconj(c.t, coord_el2), pos),
                 Shift(coord_el2, pos),
                 [k \in DOMAIN adps |-> Shift(adps[k], pos)],
                 i + 1)
    ELSE CorrectingLoop(c, coord_el2, adps, i + 1)

\* RuleDoubleAdpos.process_node of an instance with detect_only = False
RuleDoubleAdpos_process_node_correcting(t, st, node) ==
    LET c == [t |-> t, st |-> st, raised |-> "", corrections |-> 0]
    IN  IF NodeAttrs(t, node).deprel # <<"conj">> \/ Parent(t, Parent(t, node)) = NoNode
        THEN c
        ELSE CorrectingLoop(c, node, AdposSiblings(t, node), 1)

\* RuleDoubleAdpos(max_allowable_distance=..., detect_only=False)
\* .process_node(node) on the document built so far
CallCorrectingProcessNode(node, max_allowable_distance, id) ==
    /\ pc.phase = "build"
    /\ rules = <<>>
    /\ node \in TreeNodes(tree)
    /\ \E fresh \in [1..Len(AdposSiblings(tree, node)) -> AppIds] :
          LET self == [NewRule("RuleDoubleAdpos",
                               [p \in {"max_allowable_distance"} |-> max_allowable_distance],
                               id)
                         EXCEPT !.detect_only = FALSE]
              c == RuleDoubleAdpos_process_node_correcting(
                       tree,
                       [misc |-> misc, self |-> self, idx |-> 1,
                        hist |-> [findings EXCEPT !.generated = <<<<id>>>>],
                        fresh |-> fresh],
                       node)
          IN  /\ tree' = c.t
              /\ misc' = c.st.misc
              /\ rules' = <<c.st.self>>
              /\ findings' = c.st.hist
              /\ lastCall' = [op |-> "process_node", node |-> node,
                              corrections |-> c.corrections,
                              out |-> IF c.raised # "" THEN Raised(c.raised)
                                      ELSE Returned(c.st.self.modified_roots),
                              text |-> compute_text(tree)]
              /\ pc' = At(IF c.raised # "" THEN "raised" ELSE "called", 1, node)
    /\ UNCHANGED <<subclasses, wrapperUnion>>

\* Rule.after_process_document: root.text = root.compute_text() for every
\* root in modified_roots
CallAfterProcessDocument ==
    /\ pc.phase = "called"
    /\ lastCall' = [lastCall EXCEPT
                      !.op = "after_process_document",
                      !.text = IF Root \in rules[1].modified_roots
                               THEN compute_text(tree) ELSE @]
    /\ pc' = At("done", 1, 0)
    /\ UNCHANGED <<tree, misc, rules, findings, subclasses, wrapperUnion>>

\* C23: whenever process_node of a correcting RuleDoubleAdpos has made a
\* correction, with or without a conjunction or punctuation child on the
\* second element, it returns with the root of the tree in modified_roots,
\* and after_process_document leaves the root with the text of the new tree.
C23_ModifiedRootRecorded ==
    /\ (lastCall.op = "process_node" /\ lastCall.corrections > 0) =>
          /\ lastCall.out.raised = ""
          /\ Root \in rules[1].modified_roots
    /\ (lastCall.op = "after_process_document" /\ lastCall.corrections > 0) =>
          lastCall.text = compute_text(tree)

NextCorrect ==
    \/ \E ph \in PhraseNames : AddPhrase(ph)
    \/ \E node \in 1..(2 + 2 * MaxPhrases) :
          \E max \in {DefaultMaxAllowableDistance, MinimalMaxAllowableDistance}, id \in AppIds :
              CallCorrectingProcessNode(node, max, id)
    \/ CallAfterProcessDocument

SpecCorrect == InitRule /\ [][NextCorrect]_vars


(***************************************************************************)
(* One RuleRelativisticExpressions instance run over a sentence of up to   *)
(* MaxWords tokens, as the block does: process_node on every token in word *)
(* order.  The history notes one finding for every expression the rule     *)
(* reports.                                                                *)
(***************************************************************************)

\* the tokens the sentences are made of
ExprKinds == {"do", "jisty", "mira", "snad", "Snad", "lese"}

\* the parser appends one more token to the sentence
AddLemma(k) ==
    /\ pc.phase = "build"
    /\ Len(tree.parent) < MaxWords
    /\ tree' = [parent |-> Append(tree.parent, IF tree.parent = <<>> THEN Root ELSE 1),
                kind |-> Append(tree.kind, k)]
    /\ misc' = Append(misc, EmptyDict)
    /\ UNCHANGED <<subclasses, wrapperUnion, lastCall, rules, findings, pc>>

\* the run is entered on a sentence that has a token
StartExprRun ==
    /\ tree.parent # <<>>
    /\ StartRun

\* the expression e stands complete in the sentence from token s on
CompleteAt(t, e, s) ==
    LET expr == relativistic_expressions[e]
    IN  /\ s + Len(expr) - 1 <= Len(t.parent)
        /\ \A k \in DOMAIN expr : lower(NodeAttrs(t, s + k - 1).lemma) = expr[k]

\* C24: when an instance has been run over a document, starting from a count
\* of 0, its application_count is the number of findings it annotated, one
\* for every matched expression however many nodes the match covers.
C24_CountsFindings ==
    pc.phase \in {"after", "done"} =>
        \A r \in DOMAIN rules :
            rules[r].application_count
                = Cardinality({i \in DOMAIN findings.log : findings.log[i].rule = r})

\* C26: a node carries the annotation 'relativistic_expression' only when it
\* lies in a complete occurrence of an expression: every lemma of the
\* expression matched by consecutive nodes, none of them behind the end of
\* the sentence.
C26_OnlyCompleteMatches ==
    \A n \in DOMAIN misc :
        (\E key \in DOMAIN misc[n] : misc[n][key] = <<"relativistic_expression">>) =>
            \E e \in DOMAIN relativistic_expressions :
                \E s \in TreeNodes(tree) :
                    /\ CompleteAt(tree, e, s)
                    /\ n \in s..(s + Len(relativistic_expressions[e]) - 1)

InitExpr ==
    /\ subclasses = [c \in {Base} |-> <<>>]
    /\ wrapperUnion = <<>>
    /\ lastCall = [op |-> "none"]
    /\ tree = [parent |-> <<>>, kind |-> <<>>]
    /\ misc = <<>>
    /\ \E id \in AppIds :
          /\ rules = <<NewRule("RuleRelativisticExpressions", EmptyDict, id)>>
          /\ findings = [log |-> <<>>, generated |-> <<<<id>>>>, calls |-> <<>>]
    /\ pc = At("build", 0, 0)

NextExpr ==
    \/ \E k \in ExprKinds : AddLemma(k)
    \/ StartExprRun
    \/ ProcessNode
    \/ AfterProcessDocument

SpecExpr == InitExpr /\ [][NextExpr]_vars

(***************************************************************************)
(* One RuleMultiPartVerbs instance run over a parsed sentence: the tokens  *)
(* are attached one by one, each to the technical root or to a token       *)
(* before it, then process_node is called on every token in word order.    *)
(***************************************************************************)

\* the tokens the sentences are made of: verbs, auxiliaries and a noun
VerbKinds == {"verb", "part", "se", "noun"}

\* the parser attaches one more token: the first hangs on the technical
\* root, every other one on a token before it
AttachToken(p, k) ==
    /\ pc.phase = "build"
    /\ Len(tree.parent) < MaxNodes
    /\ p = Root <=> tree.parent = <<>>
    /\ p <= Len(tree.parent)
    /\ tree' = [parent |-> Append(tree.parent, p), kind |-> Append(tree.kind, k)]
    /\ misc' = Append(misc, EmptyDict)
    /\ UNCHANGED <<subclasses, wrapperUnion, lastCall, rules, findings, pc>>

\* C25: RuleMultiPartVerbs skips an auxiliary it has marked: when
\* process_node visits a node that carries an 'aux' annotation written by
\* RuleMultiPartVerbs, no finding is added.
C25_MarkedAuxSkipped ==
    [][(/\ pc.phase = "run"
        /\ rules[pc.rule].cls = "RuleMultiPartVerbs"
        /\ \E key \in DOMAIN misc[pc.node] :
              /\ key[2] = "RuleMultiPartVerbs"
              /\ misc[pc.node][key] = <<"aux">>)
          => findings'.log = findings.log]_vars

InitVerbs ==
    /\ subclasses = [c \in {Base} |-> <<>>]
    /\ wrapperUnion = <<>>
    /\ lastCall = [op |-> "none"]
    /\ tree = [parent |-> <<>>, kind |-> <<>>]
    /\ misc = <<>>
    /\ \E id \in AppIds, d \in {DefaultMaxDistance, MinimalMaxDistance} :
          /\ rules = <<NewRule("RuleMultiPartVerbs", [p \in {"max_distance"} |-> d], id)>>
          /\ findings = [log |-> <<>>, generated |-> <<<<id>>>>, calls |-> <<>>]
    /\ pc = At("build", 0, 0)

NextVerbs ==
    \/ \E p \in 0..MaxNodes, k \in VerbKinds : AttachToken(p, k)
    \/ StartExprRun
    \/ ProcessNode
    \/ AfterProcessDocument

SpecVerbs == InitVerbs /\ [][NextVerbs]_vars

(***************************************************************************)
(* RuleLongSentences called on one token of a sentence.  The first token   *)
(* of the sentence hangs on the technical root, the others on the first.   *)
(***************************************************************************)

\* max_length of RuleLongSentences: the class default
DefaultMaxLength == 50
\* max_length of RuleLongSentences in the 'minimal' profile
MinimalMaxLength == 0

\* str(b) of a bool
str_bool(b) == IF b THEN <<"True">> ELSE <<"False">>

\* RuleLongSentences.process_node
RuleLongSentences_process_node(t, st, node) ==
    IF Udeprel(t, node) = "root"
    THEN LET descendants ==
                 get_clause(t, node, FALSE, st.self.params["without_punctuation"], TRUE).value
             max_length == descendants[Len(descendants)] - descendants[1]
         IN  IF descendants = <<>> THEN st
             ELSE IF max_length >= st.self.params["max_length"]
             THEN advance_application_id(
                    annotate_node(
                      annotate_parameter(
                        annotate_measurement(
                          annotate_node(LogFinding(st), <<"long_sentence">>, descendants, <<>>),
                          "max_length", max_length, descendants),
                        "max_length", st.self.params["max_length"], descendants),
                      str_bool(st.self.params["without_punctuation"]), descendants,
                      <<"param", "without_punctuation">>))
             ELSE st
    ELSE st

\* the tokens the sentences are made of
SentenceKinds == {"pred", "noun", "punct"}

\* the parser appends one more token to the sentence
AddSentenceToken(k) ==
    /\ lastCall.op = "none"
    /\ Len(tree.parent) < MaxWords
    /\ tree' = [parent |-> Append(tree.parent, IF tree.parent = <<>> THEN Root ELSE 1),
                kind |-> Append(tree.kind, k)]
    /\ misc' = Append(misc, EmptyDict)
    /\ UNCHANGED <<subclasses, wrapperUnion, lastCall, rules, findings, pc>>

\* a new instance of RuleLongSentences and the frame of its first call
LongSentencesFrame(m, max_length, without_punctuation, id, fresh) ==
    [misc |-> m,
     self |-> NewRule("RuleLongSentences",
                      [p \in {"max_length", "without_punctuation"} |->
                          IF p = "max_length" THEN max_length ELSE without_punctuation],
                      id),
     idx |-> 1,
     hist |-> [log |-> <<>>, generated |-> <<<<id>>>>, calls |-> <<>>],
     fresh |-> fresh]

\* RuleLongSentences(max_length=..., without_punctuation=...).process_node(node)
CallLongSentences(node, max_length, without_punctuation, id) ==
    /\ lastCall.op = "none"
    /\ node \in TreeNodes(tree)
    /\ \E fresh \in [1..1 -> AppIds] :
          LET st == RuleLongSentences_process_node(
                        tree,
                        LongSentencesFrame(misc, max_length, without_punctuation, id, fresh),
                        node)
          IN  /\ lastCall' = [op |-> "process_node", node |-> node,
                              max_length |-> max_length,
                              without_punctuation |-> without_punctuation,
                              id |-> id, fresh |-> fresh]
              /\ misc' = st.misc
              /\ rules' = <<st.self>>
              /\ findings' = st.hist
    /\ UNCHANGED <<subclasses, wrapperUnion, tree, pc>>

\* the tokens the rule counts for node: its subtree without the punctuation
CountedTokens(t, node) == ClauseOf(t, node, FALSE, TRUE)

\* the punctuation tokens between the first and the last counted token
InnerPunct(t, node) ==
    LET c == CountedTokens(t, node)
    IN  IF c = <<>> THEN {}
        ELSE {n \in TreeNodes(t) : /\ NodeAttrs(t, n).upos = "PUNCT"
                                   /\ c[1] < n
                                   /\ n < c[Len(c)]}

\* the sentence without the tokens of S, which all stand behind its first
\* token and have no children
WithoutTokens(t, S) ==
    LET keep == SortedFrom(TreeNodes(t) \ S, 1, Len(t.parent))
    IN  [parent |-> [i \in DOMAIN keep |-> t.parent[keep[i]]],
         kind |-> [i \in DOMAIN keep |-> t.kind[keep[i]]]]

\* C27: with without_punctuation = True, whether the sentence is reported and
\* the max_length recorded are those of the same sentence with the
\* punctuation between its first and last counted token taken out.
C27_PunctuationNotMeasured ==
    (lastCall.op = "process_node" /\ lastCall.without_punctuation /\ lastCall.node = 1) =>
        LET bare == WithoutTokens(tree, InnerPunct(tree, 1))
            ref == RuleLongSentences_process_node(
                       bare,
                       LongSentencesFrame([n \in TreeNodes(bare) |-> EmptyDict],
                                          lastCall.max_length, TRUE, lastCall.id,
                                          lastCall.fresh),
                       1)
        IN  /\ rules[1].application_count = ref.self.application_count
            /\ rules[1].measured_values = ref.self.measured_values

InitLong ==
    /\ subclasses = [c \in {Base} |-> <<>>]
    /\ wrapperUnion = <<>>
    /\ lastCall = [op |-> "none"]
    /\ tree = [parent |-> <<>>, kind |-> <<>>]
    /\ misc = <<>>
    /\ rules = <<>>
    /\ findings = [log |-> <<>>, generated |-> <<>>, calls |-> <<>>]
    /\ pc = [phase |-> "off", rule |-> 0, node |-> 0]

NextLong ==
    \/ \E k \in SentenceKinds : AddSentenceToken(k)
    \/ \E node \in 1..MaxWords, without_punctuation \in BOOLEAN, id \in AppIds :
          \E max_length \in {DefaultMaxLength, MinimalMaxLength, 2} :
              CallLongSentences(node, max_length, without_punctuation, id)

SpecLong == InitLong /\ [][NextLong]_vars

(***************************************************************************)
(* Runs served through the helpers of the server, one after the other: a   *)
(* run selects a profile with select_profile and applies the rules it got  *)
(* to one document with apply_rules.  profiles is built once, when the     *)
(* module is imported; lastCall.minimal is the state of the instances in   *)
(* profiles['minimal'] while no run works on them.                         *)
(***************************************************************************)

\* [rule() for rule in Rule.get_final_children()]: every rule class of the
\* model built with its defaults
default_rules(ids) ==
    <<NewRule("RuleDoubleAdpos",
              [p \in {"max_allowable_distance"} |-> DefaultMaxAllowableDistance], ids[1]),
      NewRule("RuleWeakMeaningWords", EmptyDict, ids[2]),
      NewRule("RuleConfirmationExpressions", EmptyDict, ids[3])>>

\* the instances in profiles['minimal'] as they are now: a run that
\* selected the profile has worked on these very instances
minimal_now == IF lastCall.profile = "minimal" THEN rules ELSE lastCall.minimal

\* select_profile: the rule list of the profile, or new default instances
\* for a profile that has none
select_profile(profile_str, ids) ==
    IF profile_str = "minimal" THEN minimal_now ELSE default_rules(ids)

\* the document of a run
Uploaded(ph) ==
    LET toks == Phrase(ph, 2)
    IN  [parent |-> HeadPhrase.parent \o [i \in DOMAIN toks |-> toks[i].parent],
         kind |-> HeadPhrase.kind \o [i \in DOMAIN toks |-> toks[i].kind]]

\* a run begins: select_profile(profile) is called and apply_rules starts on
\* the run's document with the list it returned
SelectProfile(profile, ph, ids) ==
    /\ pc.phase \in {"idle", "done"}
    /\ lastCall.requests < MaxRequests
    /\ tree' = Uploaded(ph)
    /\ misc' = [n \in TreeNodes(Uploaded(ph)) |-> EmptyDict]
    /\ rules' = select_profile(profile, ids)
    /\ findings' = FreshHistory(select_profile(profile, ids))
    /\ lastCall' = [op |-> "select_profile", profile |-> profile,
                    minimal |-> minimal_now, requests |-> lastCall.requests + 1]
    /\ pc' = At("run", 1, 1)
    /\ UNCHANGED <<subclasses, wrapperUnion>>

\* C30: a run that takes its rules from select_profile starts with every
\* instance at application_count 0 with no means and no recorded values,
\* whatever earlier runs with the same profile name have done.
C30_FreshInstancesPerRun ==
    (lastCall.op = "select_profile" /\ findings.calls = <<>>) =>
        \A r \in DOMAIN rules :
            Aggregator(rules[r])
                = Aggregator(NewRule(rules[r].cls, rules[r].params, rules[r].process_id))

InitServer ==
    /\ subclasses = [c \in {Base} |-> <<>>]
    /\ wrapperUnion = <<>>
    /\ \E ids \in [1..3 -> AppIds] :
          lastCall = [op |-> "import", profile |-> "none",
                      minimal |-> minimal_profile_rules(ids), requests |-> 0]
    /\ tree = [parent |-> <<>>, kind |-> <<>>]
    /\ misc = <<>>
    /\ rules = <<>>
    /\ findings = [log |-> <<>>, generated |-> <<>>, calls |-> <<>>]
    /\ pc = At("idle", 0, 0)

NextServer ==
    \/ \E profile \in {"default", "minimal"}, ph \in BatchPhrases, ids \in [1..3 -> AppIds] :
          SelectProfile(profile, ph, ids)
    \/ ProcessNode
    \/ AfterProcessDocument

SpecServer == InitServer /\ [][NextServer]_vars

(***************************************************************************)
(* The annotation methods of Rule called directly: two instances of any    *)
(* classes and ids annotate the tokens of "V lese" and advance their ids   *)
(* in any order.  The history notes every write: the instance, the key it  *)
(* built, the value and the nodes.                                         *)
(***************************************************************************)

\* the text of a list of digits or of flag pieces, each after a separator
RECURSIVE JoinText(_, _)
JoinText(parts, sep) ==
    IF parts = <<>> THEN "" ELSE sep \o Head(parts) \o JoinText(Tail(parts), sep)

\* the f-string of Rule.annotate_node: the segments of a key joined by ':'
KeyText(key) ==
    key[1] \o ":" \o key[2] \o ":" \o JoinText(str(key[3]), "")
           \o JoinText(SubSeq(key, 4, Len(key)), ":")

\* the node lists the methods are called with
NodeLists == {<<>>, <<1>>, <<1, 2>>}

\* the frame of a call made on instance r outside a run of the rule list
CallFrame(r) ==
    [misc |-> misc, self |-> rules[r], idx |-> r, hist |-> findings, fresh |-> <<>>]

\* history only: instance r has written value under key on nodes
LogWrite(r, flag, value, nodes) ==
    [findings EXCEPT
        !.log = Append(@, [rule |-> r, key |-> RuleKey(rules[r], flag),
                           value |-> value, nodes |-> nodes]),
        !.calls = Append(@, [rule |-> r, node |-> 0])]

\* rule.annotate_node(annotation, *nodes, flag=flag)
CallAnnotateNode(r, annotation, nodes, flag) ==
    /\ pc.phase = "calls"
    /\ Len(findings.calls) < MaxCalls
    /\ LET st == annotate_node(CallFrame(r), annotation, nodes, flag)
       IN  /\ misc' = st.misc
           /\ rules' = [rules EXCEPT ![r] = st.self]
    /\ findings' = LogWrite(r, flag, annotation, nodes)
    /\ lastCall' = [op |-> "annotate_node", rule |-> r, value |-> annotation,
                    nodes |-> nodes, flag |-> flag]
    /\ UNCHANGED <<tree, pc, subclasses, wrapperUnion>>

\* rule.annotate_measurement(m_name, m_value, *nodes)
CallAnnotateMeasurement(r, m_name, m_value, nodes) ==
    /\ pc.phase = "calls"
    /\ Len(findings.calls) < MaxCalls
    /\ LET st == annotate_measurement(CallFrame(r), m_name, m_value, nodes)
       IN  /\ misc' = st.misc
           /\ rules' = [rules EXCEPT ![r] = st.self]
    /\ findings' = LogWrite(r, <<"measur", m_name>>, str(m_value), nodes)
    /\ lastCall' = [op |-> "annotate_measurement", rule |-> r, value |-> str(m_value),
                    nodes |-> nodes, flag |-> <<"measur", m_name>>]
    /\ UNCHANGED <<tree, pc, subclasses, wrapperUnion>>

\* rule.annotate_parameter(p_name, p_value, *nodes)
CallAnnotateParameter(r, p_name, p_value, nodes) ==
    /\ pc.phase = "calls"
    /\ Len(findings.calls) < MaxCalls
    /\ LET st == annotate_parameter(CallFrame(r), p_name, p_value, nodes)
       IN  /\ misc' = st.misc
           /\ rules' = [rules EXCEPT ![r] = st.self]
    /\ findings' = LogWrite(r, <<"param", p_name>>, str(p_value), nodes)
    /\ lastCall' = [op |-> "annotate_parameter", rule |-> r, value |-> str(p_value),
                    nodes |-> nodes, flag |-> <<"param", p_name>>]
    /\ UNCHANGED <<tree, pc, subclasses, wrapperUnion>>

\* rule.advance_application_id(), os.urandom returning id
CallAdvance(r, id) ==
    /\ pc.phase = "calls"
    /\ Len(findings.calls) < MaxCalls
    /\ LET st == advance_application_id([CallFrame(r) EXCEPT !.fresh = <<id>>])
       IN  /\ rules' = [rules EXCEPT ![r] = st.self]
           /\ findings' = [st.hist EXCEPT !.calls = Append(@, [rule |-> r, node |-> 0])]
    /\ lastCall' = [op |-> "advance_application_id", rule |-> r]
    /\ UNCHANGED <<tree, misc, pc, subclasses, wrapperUnion>>

\* the key text the call noted in lastCall is to write: the prefix, the name
\* of the class, the id the instance had, and the flag when one was given
ExpectedKeyText ==
    RULE_ANNOTATION_PREFIX \o ":" \o rules[lastCall'.rule].cls \o ":"
        \o JoinText(str(rules[lastCall'.rule].process_id), "")
        \o JoinText(lastCall'.flag, ":")

\* C21: an annotation call sets, on each node it is given, the annotation
\* under 'PonkApp1:<class name>:<application id>', followed by ':<flag>'
\* exactly when a flag is given ('measur:<name>' for annotate_measurement,
\* 'param:<name>' for annotate_parameter), to the same value, and changes no
\* other annotation and no other node; with no node given nothing changes.
C21_AnnotateFrame ==
    [][lastCall'.op \in {"annotate_node", "annotate_measurement", "annotate_parameter"} =>
          \A n \in DOMAIN misc :
              /\ n \in Range(lastCall'.nodes) =>
                    \E k \in DOMAIN misc'[n] :
                        /\ KeyText(k) = ExpectedKeyText
                        /\ misc'[n][k] = lastCall'.value
                        /\ DOMAIN misc'[n] = DOMAIN misc[n] \cup {k}
                        /\ \A o \in DOMAIN misc[n] \ {k} : misc'[n][o] = misc[n][o]
              /\ n \notin Range(lastCall'.nodes) => misc'[n] = misc[n]]_vars

\* a measurement was written on two nodes of which one carried another
\* annotation already and keeps it
C21_Witness ==
    /\ lastCall.op = "annotate_measurement"
    /\ Len(lastCall.nodes) = 2
    /\ \E n \in Range(lastCall.nodes) : Cardinality(DOMAIN misc[n]) > 1

\* C22: instances of different rule classes never write the same key,
\* whatever their application ids and flags, so every annotation a rule has
\* written is on its nodes with the value written unless an instance of the
\* same class wrote that key again.
C22_NoCollisionAcrossClasses ==
    LET log == findings.log
    IN  /\ \A i, j \in DOMAIN log :
              rules[log[i].rule].cls # rules[log[j].rule].cls
                  => KeyText(log[i].key) # KeyText(log[j].key)
        /\ \A i \in DOMAIN log : \A n \in Range(log[i].nodes) :
              \/ /\ log[i].key \in DOMAIN misc[n]
                 /\ misc[n][log[i].key] = log[i].value
              \/ \E j \in (i + 1)..Len(log) :
                    /\ rules[log[j].rule].cls = rules[log[i].rule].cls
                    /\ log[j].key = log[i].key
                    /\ n \in Range(log[j].nodes)

\* two instances of different classes wrote different values on one node
\* under the same application id and the same flag, and both values are there
C22_Witness ==
    \E i, j \in DOMAIN findings.log :
        LET a == findings.log[i]
            b == findings.log[j]
        IN  /\ i < j
            /\ rules[a.rule].cls # rules[b.rule].cls
            /\ a.key[3] = b.key[3]
            /\ SubSeq(a.key, 4, Len(a.key)) = SubSeq(b.key, 4, Len(b.key))
            /\ a.value # b.value
            /\ \E n \in Range(a.nodes) \cap Range(b.nodes) :
                  misc[n][a.key] = a.value /\ misc[n][b.key] = b.value

InitAnnotate ==
    /\ subclasses = [c \in {Base} |-> <<>>]
    /\ wrapperUnion = <<>>
    /\ lastCall = [op |-> "none"]
    /\ tree = HeadPhrase
    /\ misc = [n \in 1..2 |-> EmptyDict]
    /\ \E c2 \in RuleClasses : \E i1, i2 \in AppIds :
          /\ rules = <<NewRule("RuleDoubleAdpos", EmptyDict, i1), NewRule(c2, EmptyDict, i2)>>
          /\ findings = [log |-> <<>>, generated |-> <<<<i1>>, <<i2>>>>, calls |-> <<>>]
    /\ pc = At("calls", 0, 0)

NextAnnotate ==
    \/ \E r \in DOMAIN rules, nodes \in NodeLists :
          \E flag \in {<<>>, <<"measur", "max_order">>} :
              CallAnnotateNode(r, <<"cconj">>, nodes, flag)
    \/ \E r \in DOMAIN rules, nodes \in NodeLists :
          CallAnnotateMeasurement(r, "max_order", 12, nodes)
    \/ \E r \in DOMAIN rules, nodes \in NodeLists :
          CallAnnotateParameter(r, "max_order", DefaultMaxOrder, nodes)
    \/ \E r \in DOMAIN rules, id \in AppIds : CallAdvance(r, id)

SpecAnnotate == InitAnnotate /\ [][NextAnnotate]_vars

====
